---- MODULE Spec2Model ----
(***************************************************************************)
(* Model of src/Program.py (class NumericalMethods): the function parser   *)
(* parse_function and the root-finding methods driven by find_roots.       *)
(*                                                                         *)
(* Text is a sequence of one-character strings.  A float is modelled as an *)
(* exact rational <<n, d>> in lowest terms with d > 0; float('inf') is     *)
(* <<1, 0>>, -inf is <<-1, 0>> and nan is <<0, 0>>.  Rounding of IEEE      *)
(* arithmetic is not modelled.                                             *)
(***************************************************************************)
EXTENDS Integers, Sequences, FiniteSets, TLC

(***************************************************************************)
(* Float arithmetic (exact).                                               *)
(***************************************************************************)
IAbs(n) == IF n < 0 THEN -n ELSE n

RECURSIVE GCD(_, _)
GCD(a, b) == IF b = 0 THEN a ELSE GCD(b, a % b)

\* n/d in lowest terms; 0/0 is nan
Rat(n, d) ==
    LET g == GCD(IAbs(n), IAbs(d))
        s == IF d < 0 THEN -1 ELSE 1
    IN  IF g = 0 THEN <<0, 0>> ELSE <<(s * n) \div g, (s * d) \div g>>

Int2Rat(n) == <<n, 1>>
Zero == Int2Rat(0)
Inf == <<1, 0>>
NaN == <<0, 0>>

Add(a, b) == Rat(a[1] * b[2] + b[1] * a[2], a[2] * b[2])
Neg(a) == <<-a[1], a[2]>>
Sub(a, b) == Add(a, Neg(b))
Mul(a, b) == Rat(a[1] * b[1], a[2] * b[2])
Div(a, b) == Rat(a[1] * b[2], a[2] * b[1])
Lt(a, b) == a[1] * b[2] < b[1] * a[2]
Le(a, b) == a # NaN /\ b # NaN /\ a[1] * b[2] <= b[1] * a[2]
FAbs(a) == <<IAbs(a[1]), a[2]>>

RECURSIVE IntPow(_, _)
IntPow(a, n) == IF n = 0 THEN Int2Rat(1) ELSE Mul(a, IntPow(a, n - 1))

(***************************************************************************)
(* Python str operations used by parse_function.                           *)
(***************************************************************************)
Whitespace == {" "}
Digits == {"0", "1", "2", "3", "4", "5", "6", "7", "8", "9"}
Letters ==
    {"a", "b", "c", "d", "e", "f", "g", "h", "i", "j", "k", "l", "m",
     "n", "o", "p", "q", "r", "s", "t", "u", "v", "w", "x", "y", "z",
     "A", "B", "C", "D", "E", "F", "G", "H", "I", "J", "K", "L", "M",
     "N", "O", "P", "Q", "R", "S", "T", "U", "V", "W", "X", "Y", "Z"}

\* s[i:] with a 0-based Python index i
From(s, i) == SubSeq(s, i + 1, Len(s))

RECURSIVE lstrip(_)
lstrip(s) == IF s # <<>> /\ Head(s) \in Whitespace THEN lstrip(Tail(s)) ELSE s

RECURSIVE rstrip(_)
rstrip(s) ==
    IF s # <<>> /\ s[Len(s)] \in Whitespace
    THEN rstrip(SubSeq(s, 1, Len(s) - 1))
    ELSE s

strip(s) == rstrip(lstrip(s))

startswith(s, p) == Len(p) <= Len(s) /\ SubSeq(s, 1, Len(p)) = p

\* p in s
contains(s, p) == \E i \in 0..(Len(s) - Len(p)) : startswith(From(s, i), p)

\* s.replace(old, new): every non-overlapping occurrence, left to right
RECURSIVE replace(_, _, _)
replace(s, old, new) ==
    IF s = <<>> THEN <<>>
    ELSE IF startswith(s, old) THEN new \o replace(From(s, Len(old)), old, new)
    ELSE <<Head(s)>> \o replace(Tail(s), old, new)

\* the text of s before the first occurrence of sep (all of s if there is none)
RECURSIVE before(_, _)
before(s, sep) ==
    IF s = <<>> \/ startswith(s, sep) THEN <<>>
    ELSE <<Head(s)>> \o before(Tail(s), sep)

\* s.split(sep)
RECURSIVE split(_, _)
split(s, sep) ==
    LET h == before(s, sep)
    IN  IF Len(h) = Len(s) THEN <<s>>
        ELSE <<h>> \o split(From(s, Len(h) + Len(sep)), sep)

\* s.split(): the whitespace-separated words of s
RECURSIVE split_ws(_)
split_ws(s) ==
    LET t == lstrip(s)
        w == before(t, <<" ">>)
    IN  IF t = <<>> THEN <<>> ELSE <<w>> \o split_ws(From(t, Len(w)))

(***************************************************************************)
(* parse_function: normalisation of the text after "f(x) =".               *)
(***************************************************************************)
Prefix == <<"f", "(", "x", ")", " ", "=">>

\* parts[1].split()[0].split('-')[0].split('+')[0].split('*')[0].split('/')[0]
\* (lines 1002 and 1011); split()[0] raises IndexError when there is no word
var_part_raises(part) == split_ws(part) = <<>>

var_part(part) ==
    before(before(before(before(split_ws(part)[1], <<"-">>), <<"+">>),
                  <<"*">>), <<"/">>)

\* lines 997-1012: the rewriting of e^- and e^ into exp(...).  The result is
\* [raised, str]: str is function_str as the code leaves it, also when
\* split()[0] raises after the first replace was stored.
\* lines 1001-1003 and 1010-1012: the closing parenthesis after the variable
\* part, with r the text after the first replace and parts its split
close_exp(r, parts, opening) ==
    IF Len(parts) > 1
    THEN IF var_part_raises(parts[2])
         THEN [raised |-> TRUE, str |-> r]
         ELSE [raised |-> FALSE,
               str |-> replace(r, opening \o var_part(parts[2]),
                               opening \o var_part(parts[2]) \o <<")">>)]
    ELSE [raised |-> FALSE, str |-> r]

\* lines 998-1003 and 1007-1012 with r the text after the first replace
split_exp(r, opening) == close_exp(r, split(r, opening), opening)

handle_exp(fs) ==
    IF contains(fs, <<"e", "^", "-">>)
    THEN split_exp(replace(fs, <<"e", "^", "-">>, <<"e", "x", "p", "(", "-">>),
                   <<"e", "x", "p", "(", "-">>)
    ELSE IF contains(fs, <<"e", "^">>)
    THEN split_exp(replace(fs, <<"e", "^">>, <<"e", "x", "p", "(">>),
                   <<"e", "x", "p", "(">>)
    ELSE [raised |-> FALSE, str |-> fs]

\* line 1018: re.sub(r'(\d)([a-zA-Z\(])', r'\1*\2', s)
RECURSIVE sub_digit_letter(_)
sub_digit_letter(s) ==
    IF Len(s) < 2 THEN s
    ELSE IF s[1] \in Digits /\ s[2] \in Letters \cup {"("}
    THEN <<s[1], "*", s[2]>> \o sub_digit_letter(From(s, 2))
    ELSE <<s[1]>> \o sub_digit_letter(Tail(s))

\* line 1019: re.sub(r'([a-zA-Z\)])(\d)', r'\1*\2', s)
RECURSIVE sub_letter_digit(_)
sub_letter_digit(s) ==
    IF Len(s) < 2 THEN s
    ELSE IF s[1] \in Letters \cup {")"} /\ s[2] \in Digits
    THEN <<s[1], "*", s[2]>> \o sub_letter_digit(From(s, 2))
    ELSE <<s[1]>> \o sub_letter_digit(Tail(s))

\* lines 1014-1022: ^ to **, implicit multiplication, ln( to log(
normalise_ops(fs) ==
    replace(sub_letter_digit(sub_digit_letter(replace(fs, <<"^">>, <<"*", "*">>))),
            <<"l", "n", "(">>, <<"l", "o", "g", "(">>)

(***************************************************************************)
(* eval(self.function_str, safe_env), line 1030: the Python expression     *)
(* grammar restricted to numbers, names, string literals, calls, attribute *)
(* access, parentheses and the operators + - * / **.                       *)
(***************************************************************************)
DigitVal(c) ==
    CASE c = "0" -> 0 [] c = "1" -> 1 [] c = "2" -> 2 [] c = "3" -> 3
      [] c = "4" -> 4 [] c = "5" -> 5 [] c = "6" -> 6 [] c = "7" -> 7
      [] c = "8" -> 8 [] c = "9" -> 9

IdentStart == Letters \cup {"_"}
IdentChars == Letters \cup Digits \cup {"_"}
OpChars == {"+", "-", "*", "/", "(", ")", ",", "."}

RECURSIVE take_while(_, _)
take_while(s, S) ==
    IF s # <<>> /\ Head(s) \in S
    THEN <<Head(s)>> \o take_while(Tail(s), S)
    ELSE <<>>

\* a decimal literal: digits, optionally a point and more digits
number_lexeme(s) ==
    LET ip == take_while(s, Digits)
        rest == From(s, Len(ip))
    IN  IF rest # <<>> /\ Head(rest) = "."
        THEN ip \o <<".">> \o take_while(Tail(rest), Digits)
        ELSE ip

RECURSIVE tokenize(_)
tokenize(s) ==
    IF s = <<>> THEN <<>>
    ELSE IF Head(s) \in Whitespace THEN tokenize(Tail(s))
    ELSE IF Head(s) \in Digits \/ (Head(s) = "." /\ Len(s) > 1 /\ s[2] \in Digits)
    THEN LET n == number_lexeme(s)
         IN  <<[t |-> "num", v |-> n]>> \o tokenize(From(s, Len(n)))
    ELSE IF Head(s) \in IdentStart
    THEN LET n == take_while(s, IdentChars)
         IN  <<[t |-> "name", v |-> n]>> \o tokenize(From(s, Len(n)))
    ELSE IF startswith(s, <<"*", "*">>)
    THEN <<[t |-> "op", v |-> <<"*", "*">>]>> \o tokenize(From(s, 2))
    ELSE IF Head(s) \in OpChars
    THEN <<[t |-> "op", v |-> <<Head(s)>>]>> \o tokenize(Tail(s))
    ELSE IF Head(s) = "'"
    THEN LET body == before(Tail(s), <<"'">>)
         IN  IF Len(body) = Len(s) - 1
             THEN <<[t |-> "bad", v |-> s]>>
             ELSE <<[t |-> "str", v |-> body]>> \o tokenize(From(s, Len(body) + 2))
    ELSE <<[t |-> "bad", v |-> <<Head(s)>>]>>

Tok(ts, p) == IF p <= Len(ts) THEN ts[p] ELSE [t |-> "end", v |-> <<>>]
IsOp(tok, o) == tok.t = "op" /\ tok.v = o
Ok(node, p) == [ok |-> TRUE, node |-> node, p |-> p]
Fail(p) == [ok |-> FALSE, node |-> [k |-> "none"], p |-> p]

\* the expression grammar of Python, one rule per value of rule; acc is what
\* the rule has built so far: the arguments of a call ("args"), the node a
\* trailer applies to ("trailers"), the left operand ("term_rest", "arith_rest")
RECURSIVE parse_expr(_, _, _, _)
parse_expr(rule, ts, p, acc) ==
    CASE rule = "atom" ->
            LET tok == Tok(ts, p)
            IN  IF tok.t = "num" THEN Ok([k |-> "num", lex |-> tok.v], p + 1)
                ELSE IF tok.t = "name" THEN Ok([k |-> "name", id |-> tok.v], p + 1)
                ELSE IF tok.t = "str" THEN Ok([k |-> "str", s |-> tok.v], p + 1)
                ELSE IF IsOp(tok, <<"(">>)
                THEN LET e == parse_expr("arith", ts, p + 1, <<>>)
                     IN  IF e.ok /\ IsOp(Tok(ts, e.p), <<")">>)
                         THEN Ok(e.node, e.p + 1)
                         ELSE Fail(e.p)
                ELSE Fail(p)
      [] rule = "args" ->
            IF acc = <<>> /\ IsOp(Tok(ts, p), <<")">>) THEN Ok(acc, p + 1)
            ELSE LET e == parse_expr("arith", ts, p, <<>>)
                 IN  IF ~e.ok THEN Fail(e.p)
                     ELSE IF IsOp(Tok(ts, e.p), <<",">>)
                     THEN parse_expr("args", ts, e.p + 1, Append(acc, e.node))
                     ELSE IF IsOp(Tok(ts, e.p), <<")">>)
                     THEN Ok(Append(acc, e.node), e.p + 1)
                     ELSE Fail(e.p)
      [] rule = "trailers" ->
            IF IsOp(Tok(ts, p), <<"(">>)
            THEN LET a == parse_expr("args", ts, p + 1, <<>>)
                 IN  IF a.ok
                     THEN parse_expr("trailers", ts, a.p,
                              [k |-> "call", f |-> acc, args |-> a.node])
                     ELSE Fail(a.p)
            ELSE IF IsOp(Tok(ts, p), <<".">>)
            THEN IF Tok(ts, p + 1).t = "name"
                 THEN parse_expr("trailers", ts, p + 2,
                                     [k |-> "attr", e |-> acc, name |-> Tok(ts, p + 1).v])
                 ELSE Fail(p + 1)
            ELSE Ok(acc, p)
      [] rule = "power" ->
            LET a == parse_expr("atom", ts, p, <<>>)
                b == parse_expr("trailers", ts, a.p, a.node)
            IN  IF ~a.ok THEN a
                ELSE IF ~b.ok THEN b
                ELSE IF IsOp(Tok(ts, b.p), <<"*", "*">>)
                THEN LET e == parse_expr("factor", ts, b.p + 1, <<>>)
                     IN  IF e.ok
                         THEN Ok([k |-> "bin", op |-> <<"*", "*">>, l |-> b.node,
                                  r |-> e.node], e.p)
                         ELSE e
                ELSE b
      [] rule = "factor" ->
            IF IsOp(Tok(ts, p), <<"-">>) \/ IsOp(Tok(ts, p), <<"+">>)
            THEN LET e == parse_expr("factor", ts, p + 1, <<>>)
                 IN  IF e.ok THEN Ok([k |-> "un", op |-> Tok(ts, p).v, e |-> e.node], e.p) ELSE e
            ELSE parse_expr("power", ts, p, <<>>)
      [] rule = "term_rest" ->
            IF IsOp(Tok(ts, p), <<"*">>) \/ IsOp(Tok(ts, p), <<"/">>)
            THEN LET e == parse_expr("factor", ts, p + 1, <<>>)
                 IN  IF e.ok
                     THEN parse_expr("term_rest", ts, e.p,
                              [k |-> "bin", op |-> Tok(ts, p).v, l |-> acc, r |-> e.node])
                     ELSE e
            ELSE Ok(acc, p)
      [] rule = "term" ->
            LET e == parse_expr("factor", ts, p, <<>>)
            IN  IF e.ok THEN parse_expr("term_rest", ts, e.p, e.node) ELSE e
      [] rule = "arith_rest" ->
            IF IsOp(Tok(ts, p), <<"+">>) \/ IsOp(Tok(ts, p), <<"-">>)
            THEN LET e == parse_expr("term", ts, p + 1, <<>>)
                 IN  IF e.ok
                     THEN parse_expr("arith_rest", ts, e.p,
                              [k |-> "bin", op |-> Tok(ts, p).v, l |-> acc, r |-> e.node])
                     ELSE e
            ELSE Ok(acc, p)
      [] rule = "arith" ->
            LET e == parse_expr("term", ts, p, <<>>)
            IN  IF e.ok THEN parse_expr("arith_rest", ts, e.p, e.node) ELSE e

\* compile(source, "<string>", "eval"): the whole text must be one expression
python_parse(src) ==
    LET ts == tokenize(src)
        e == parse_expr("arith", ts, 1, <<>>)
    IN  IF e.ok /\ e.p = Len(ts) + 1 THEN e ELSE Fail(e.p)

\* the value of a decimal literal
RECURSIVE digits_value(_)
digits_value(ds) ==
    IF ds = <<>> THEN 0
    ELSE 10 * digits_value(SubSeq(ds, 1, Len(ds) - 1)) + DigitVal(ds[Len(ds)])

literal_value(lex) ==
    LET ip == before(lex, <<".">>)
        fp == IF Len(ip) = Len(lex) THEN <<>> ELSE From(lex, Len(ip) + 1)
    IN  Rat(digits_value(ip \o fp), 10 ^ Len(fp))

(***************************************************************************)
(* The names eval can resolve.  Values are sympy objects:                  *)
(*   [k |-> "x"]  the symbol, [k |-> "num", v]  a number,                  *)
(*   [k |-> "const", id]  E or pi, [k |-> "fn", id]  a callable,           *)
(*   [k |-> "app", f, arg]  an applied function, [k |-> "bin", op, l, r],  *)
(*   [k |-> "neg", e], [k |-> "str", s]  a Python string.                  *)
(***************************************************************************)
Fn(id) == [k |-> "fn", id |-> id]

\* lines 16-20
allowed_functions ==
    (<<"s", "i", "n">> :> Fn(<<"s", "i", "n">>)) @@
    (<<"c", "o", "s">> :> Fn(<<"c", "o", "s">>)) @@
    (<<"t", "a", "n">> :> Fn(<<"t", "a", "n">>)) @@
    (<<"l", "o", "g">> :> Fn(<<"l", "o", "g">>)) @@
    (<<"l", "n">> :> Fn(<<"l", "o", "g">>)) @@
    (<<"e", "x", "p">> :> Fn(<<"e", "x", "p">>)) @@
    (<<"e">> :> [k |-> "const", id |-> <<"E">>]) @@
    (<<"p", "i">> :> [k |-> "const", id |-> <<"p", "i">>])

\* line 1027
safe_env == (<<"x">> :> [k |-> "x"]) @@ allowed_functions

\* eval() adds __builtins__ to a globals dict that has no such key, so every
\* Python builtin resolves as well; pow stands for them here
python_builtins == (<<"p", "o", "w">> :> Fn(<<"p", "o", "w">>))

eval_globals == safe_env @@ python_builtins

Val(v) == [err |-> "", v |-> v]
Raise(e) == [err |-> e, v |-> [k |-> "none"]]

IsExpr(v) == v.k \in {"x", "num", "const", "app", "bin", "neg"}
IsInt(r) == r[2] = 1

\* an arithmetic operator applied to two values
apply_bin(op, a, b) ==
    IF ~(IsExpr(a) /\ IsExpr(b)) THEN Raise("TypeError")
    ELSE IF a.k = "num" /\ b.k = "num"
    THEN CASE op = <<"+">> -> Val([k |-> "num", v |-> Add(a.v, b.v)])
           [] op = <<"-">> -> Val([k |-> "num", v |-> Sub(a.v, b.v)])
           [] op = <<"*">> -> Val([k |-> "num", v |-> Mul(a.v, b.v)])
           [] op = <<"/">> ->
                IF b.v = Zero THEN Raise("ZeroDivisionError")
                ELSE Val([k |-> "num", v |-> Div(a.v, b.v)])
           [] op = <<"*", "*">> ->
                IF IsInt(b.v) /\ b.v[1] >= 0
                THEN Val([k |-> "num", v |-> IntPow(a.v, b.v[1])])
                ELSE IF IsInt(b.v) /\ a.v = Zero THEN Raise("ZeroDivisionError")
                ELSE IF IsInt(b.v)
                THEN Val([k |-> "num", v |-> Div(Int2Rat(1), IntPow(a.v, -b.v[1]))])
                ELSE Val([k |-> "bin", op |-> op, l |-> a, r |-> b])
    ELSE Val([k |-> "bin", op |-> op, l |-> a, r |-> b])

\* a call f(args) of a value
apply_call(f, args) ==
    IF f.k # "fn" THEN Raise("TypeError")
    ELSE IF f.id = <<"p", "o", "w">>
    THEN IF Len(args) = 2 THEN apply_bin(<<"*", "*">>, args[1], args[2])
         ELSE Raise("TypeError")
    ELSE IF Len(args) = 1 /\ IsExpr(args[1])
    THEN Val([k |-> "app", f |-> f.id, arg |-> args[1]])
    ELSE Raise("TypeError")

RECURSIVE py_eval(_)
RECURSIVE py_eval_args(_)

\* the arguments of a call, left to right; the first error wins
py_eval_args(nodes) ==
    IF nodes = <<>> THEN Val(<<>>)
    ELSE LET h == py_eval(Head(nodes))
             t == py_eval_args(Tail(nodes))
         IN  IF h.err # "" THEN h
             ELSE IF t.err # "" THEN t
             ELSE Val(<<h.v>> \o t.v)

py_eval(node) ==
    CASE node.k = "num" -> Val([k |-> "num", v |-> literal_value(node.lex)])
      [] node.k = "str" -> Val([k |-> "str", s |-> node.s])
      [] node.k = "name" ->
            IF node.id \in DOMAIN eval_globals THEN Val(eval_globals[node.id])
            ELSE Raise("NameError")
      [] node.k = "un" ->
            LET e == py_eval(node.e)
            IN  IF e.err # "" THEN e
                ELSE IF ~IsExpr(e.v) THEN Raise("TypeError")
                ELSE IF node.op = <<"+">> THEN e
                ELSE IF e.v.k = "num" THEN Val([k |-> "num", v |-> Neg(e.v.v)])
                ELSE Val([k |-> "neg", e |-> e.v])
      [] node.k = "bin" ->
            LET l == py_eval(node.l)
                r == py_eval(node.r)
            IN  IF l.err # "" THEN l
                ELSE IF r.err # "" THEN r
                ELSE apply_bin(node.op, l.v, r.v)
      [] node.k = "call" ->
            LET f == py_eval(node.f)
                a == py_eval_args(node.args)
            IN  IF f.err # "" THEN f
                ELSE IF a.err # "" THEN a
                ELSE apply_call(f.v, a.v)
      [] node.k = "attr" ->
            LET e == py_eval(node.e)
            IN  IF e.err # "" THEN e ELSE Raise("AttributeError")

\* eval(source, safe_env)
eval(src) ==
    LET pr == python_parse(src)
    IN  IF pr.ok THEN py_eval(pr.node) ELSE Raise("SyntaxError")

(***************************************************************************)
(* sympy: lambdify and diff (lines 1033 and 1036).                         *)
(***************************************************************************)
Num(r) == [k |-> "num", v |-> r]
Bin(op, l, r) == [k |-> "bin", op |-> op, l |-> l, r |-> r]
App(f, arg) == [k |-> "app", f |-> f, arg |-> arg]

\* sp.lambdify(x, expr, 'numpy').  A Python string is pasted into the
\* generated function as it is, so it only has to be a Python expression.
\* A bare callable (a name such as sin without a call) is not modelled
\* further: it is taken to be rejected here.
lambdify(v) ==
    IF IsExpr(v) THEN Val([k |-> "lambda", body |-> v])
    ELSE IF v.k = "str"
    THEN IF python_parse(v.s).ok THEN Val([k |-> "lambda", body |-> v])
         ELSE Raise("SyntaxError")
    ELSE Raise("TypeError")

\* the derivative of a sympy expression with respect to x
RECURSIVE sym_diff(_)
sym_diff(v) ==
    CASE v.k = "num" -> Num(Zero)
      [] v.k = "const" -> Num(Zero)
      [] v.k = "x" -> Num(Int2Rat(1))
      [] v.k = "neg" -> [k |-> "neg", e |-> sym_diff(v.e)]
      [] v.k = "bin" /\ v.op \in {<<"+">>, <<"-">>} ->
            Bin(v.op, sym_diff(v.l), sym_diff(v.r))
      [] v.k = "bin" /\ v.op = <<"*">> ->
            Bin(<<"+">>, Bin(<<"*">>, sym_diff(v.l), v.r),
                         Bin(<<"*">>, v.l, sym_diff(v.r)))
      [] v.k = "bin" /\ v.op = <<"/">> ->
            Bin(<<"/">>,
                Bin(<<"-">>, Bin(<<"*">>, sym_diff(v.l), v.r),
                             Bin(<<"*">>, v.l, sym_diff(v.r))),
                Bin(<<"*">>, v.r, v.r))
      [] v.k = "bin" /\ v.op = <<"*", "*">> /\ v.r.k = "num" ->
            Bin(<<"*">>,
                Bin(<<"*">>, v.r,
                    Bin(<<"*", "*">>, v.l, Num(Sub(v.r.v, Int2Rat(1))))),
                sym_diff(v.l))
      [] v.k = "bin" /\ v.op = <<"*", "*">> /\ v.r.k # "num" ->
            Bin(<<"*">>, v,
                Bin(<<"+">>,
                    Bin(<<"*">>, sym_diff(v.r), App(<<"l", "o", "g">>, v.l)),
                    Bin(<<"/">>, Bin(<<"*">>, v.r, sym_diff(v.l)), v.l)))
      [] v.k = "app" /\ v.f = <<"s", "i", "n">> ->
            Bin(<<"*">>, App(<<"c", "o", "s">>, v.arg), sym_diff(v.arg))
      [] v.k = "app" /\ v.f = <<"c", "o", "s">> ->
            Bin(<<"*">>, [k |-> "neg", e |-> App(<<"s", "i", "n">>, v.arg)],
                sym_diff(v.arg))
      [] v.k = "app" /\ v.f = <<"t", "a", "n">> ->
            Bin(<<"*">>,
                Bin(<<"+">>, Num(Int2Rat(1)), Bin(<<"*">>, v, v)),
                sym_diff(v.arg))
      [] v.k = "app" /\ v.f = <<"e", "x", "p">> ->
            Bin(<<"*">>, v, sym_diff(v.arg))
      [] v.k = "app" /\ v.f = <<"l", "o", "g">> ->
            Bin(<<"/">>, sym_diff(v.arg), v.arg)

\* sympify of a Python string: the text is parsed and evaluated, and any
\* failure is a SympifyError
sympified(ev) == IF ev.err = "" /\ IsExpr(ev.v) THEN ev ELSE Raise("SympifyError")

sympify_str(str) == sympified(eval(str))

\* the derivative of what sympify returned, or its SympifyError
diff_sympified(sv) == IF sv.err = "" THEN Val(sym_diff(sv.v)) ELSE sv

\* sp.diff(f_expr, x): an object without a diff method is sympified first
diff(v) ==
    IF IsExpr(v) THEN Val(sym_diff(v))
    ELSE IF v.k = "str" THEN diff_sympified(sympify_str(v.s))
    ELSE Raise("TypeError")

\* the value of a lambdified expression at the float x
RECURSIVE num_eval(_, _)
num_eval(e, x) ==
    CASE e.k = "num" -> e.v
      [] e.k = "x" -> x
      [] e.k = "neg" -> Neg(num_eval(e.e, x))
      [] e.k = "bin" /\ e.op = <<"+">> -> Add(num_eval(e.l, x), num_eval(e.r, x))
      [] e.k = "bin" /\ e.op = <<"-">> -> Sub(num_eval(e.l, x), num_eval(e.r, x))
      [] e.k = "bin" /\ e.op = <<"*">> -> Mul(num_eval(e.l, x), num_eval(e.r, x))
      [] e.k = "bin" /\ e.op = <<"/">> -> Div(num_eval(e.l, x), num_eval(e.r, x))
      [] e.k = "bin" /\ e.op = <<"*", "*">> ->
            IntPow(num_eval(e.l, x), num_eval(e.r, x)[1])

\* self.function(x), self.derivative(x)
call(f, x) == num_eval(f.body, x)

\* whether the expression mentions x: a lambdified constant returns a
\* scalar, not an array, when it is called with an array
RECURSIVE depends_on_x(_)
depends_on_x(e) ==
    CASE e.k = "x" -> TRUE
      [] e.k \in {"num", "const"} -> FALSE
      [] e.k = "neg" -> depends_on_x(e.e)
      [] e.k = "app" -> depends_on_x(e.arg)
      [] e.k = "bin" -> depends_on_x(e.l) \/ depends_on_x(e.r)

(***************************************************************************)
(* parse_function, lines 983-1041.  The result carries the return value,   *)
(* the exception caught at line 1039 ("" if none; "prefix" for the early   *)
(* return of line 991) and the three attributes as the call leaves them.   *)
(***************************************************************************)
None == [k |-> "None"]
Unset == [k |-> "unset"]

\* a check of the name alone: "f(x)=..." passes
has_prefix_loose(input_str) == startswith(input_str, <<"f", "(", "x", ")">>)

\* line 989
has_prefix(input_str) == startswith(input_str, Prefix)

ParseResult(ret, err, f, fp, fs) ==
    [ret |-> ret, err |-> err, function |-> f, derivative |-> fp, function_str |-> fs]

\* line 1036 after sp.diff returned d: self.derivative = sp.lambdify(...)
set_derivative(fp, f, fs, self_derivative) ==
    IF fp.err # "" THEN ParseResult(FALSE, fp.err, f.v, self_derivative, fs)
    ELSE ParseResult(TRUE, "", f.v, fp.v, fs)

\* line 1036: self.function is already assigned when sp.diff raises
derive(d, f, fs, self_derivative) ==
    IF d.err # "" THEN ParseResult(FALSE, d.err, f.v, self_derivative, fs)
    ELSE set_derivative(lambdify(d.v), f, fs, self_derivative)

\* line 1033 after lambdify returned f: self.function = f
set_function(f, f_expr, fs, self_function, self_derivative) ==
    IF f.err # "" THEN ParseResult(FALSE, f.err, self_function, self_derivative, fs)
    ELSE derive(diff(f_expr), f, fs, self_derivative)

\* lines 1033-1038 with ev the outcome of the eval of line 1030
compile_expr(ev, fs, self_function, self_derivative) ==
    IF ev.err # "" THEN ParseResult(FALSE, ev.err, self_function, self_derivative, fs)
    ELSE set_function(lambdify(ev.v), ev.v, fs, self_function, self_derivative)

\* lines 1030-1038, with function_str already normalised
compile(fs, self_function, self_derivative) ==
    compile_expr(eval(fs), fs, self_function, self_derivative)

\* lines 1014-1038 with h the outcome of lines 997-1012
parse_body(h, self_function, self_derivative) ==
    IF h.raised
    THEN ParseResult(FALSE, "IndexError", self_function, self_derivative, h.str)
    ELSE compile(normalise_ops(h.str), self_function, self_derivative)

\* lines 989-1038 with input_str the stripped text
parse_stripped(input_str, self_function, self_derivative, self_function_str) ==
    IF ~has_prefix(input_str)
    THEN ParseResult(FALSE, "prefix", self_function, self_derivative, self_function_str)
    ELSE parse_body(handle_exp(strip(From(input_str, 6))), self_function, self_derivative)

parse_function(text, self_function, self_derivative, self_function_str) ==
    parse_stripped(strip(text), self_function, self_derivative, self_function_str)

(***************************************************************************)
(* The root-finding methods.  A method's result is                         *)
(*   [raised, roots, iterations_data, intervals, runs]                     *)
(* raised: the exception that left the method ("" if none); roots and      *)
(* iterations_data: the two attributes as the method leaves them;          *)
(* intervals: what find_sign_change_intervals returned; runs: one record   *)
(* per loop that was run,                                                  *)
(*   [interval, end, passes, root, data, steps, raised]                    *)
(* end: "converged" (break after a root), "max" (the for-else branch) or   *)
(* "degenerate" (break on a near-zero denominator); passes: executions of  *)
(* the loop body; root: <<r>> if a root was reported, else <<>>; data: the *)
(* iteration records; steps: for each pass that computed an approximation, *)
(* the previous one (<<>> if none), the new one and whether the pass ended *)
(* the search as converged.                                                *)
(***************************************************************************)
num_points == 100
Hundred == Int2Rat(100)
Two == Int2Rat(2)

\* a test that never finds a denominator near zero
near_zero_never(v) == FALSE

\* |v| < 1e-10 (lines 1662, 1766, 1831).  Every finite float of the model is
\* n/d with 0 < d < 2^31, so a nonzero one is above 1e-10 in magnitude.
near_zero(v) == v[1] = 0 /\ v[2] # 0

\* a relative error that divides by c also when c = 0
relative_error_always_divides(c, prev) == Mul(FAbs(Div(Sub(c, prev), c)), Hundred)

\* abs((c - prev) / c) * 100 if c != 0 else abs(c - prev) * 100
relative_error(c, prev) ==
    IF c # Zero THEN Mul(FAbs(Div(Sub(c, prev), c)), Hundred)
    ELSE Mul(FAbs(Sub(c, prev)), Hundred)

\* np.linspace(start, stop, num)
linspace(start, stop, num) ==
    [i \in 1..num |->
        Add(start, Mul(Int2Rat(i - 1), Div(Sub(stop, start), Int2Rat(num - 1))))]

\* the loop with a strict comparison: a zero at a sample is no sign change
RECURSIVE sign_change_loop_strict(_, _, _, _)
sign_change_loop_strict(x, y, lo, hi) ==
    IF lo > hi THEN <<>>
    ELSE IF lo = hi
    THEN IF Lt(Mul(y[lo], y[lo + 1]), Zero) THEN <<<<x[lo], x[lo + 1]>>>> ELSE <<>>
    ELSE sign_change_loop_strict(x, y, lo, (lo + hi) \div 2)
             \o sign_change_loop_strict(x, y, (lo + hi) \div 2 + 1, hi)

\* lines 1622-1624: the intervals appended by the passes lo..hi of the loop,
\* in order (pass i reads x[i-1] and x[i], which are x[i] and x[i+1] here)
RECURSIVE sign_change_loop(_, _, _, _)
sign_change_loop(x, y, lo, hi) ==
    IF lo > hi THEN <<>>
    ELSE IF lo = hi
    THEN IF Le(Mul(y[lo], y[lo + 1]), Zero) THEN <<<<x[lo], x[lo + 1]>>>> ELSE <<>>
    ELSE sign_change_loop(x, y, lo, (lo + hi) \div 2)
             \o sign_change_loop(x, y, (lo + hi) \div 2 + 1, hi)

\* lines 1616-1626.  A function that does not depend on x returns a scalar
\* for the array of samples, and y[i-1] raises.
find_sign_change_intervals(f, x_min, x_max) ==
    IF ~depends_on_x(f.body) THEN [raised |-> "TypeError", intervals |-> <<>>]
    ELSE LET x == linspace(x_min, x_max, num_points)
         IN  [raised |-> "",
              intervals |-> sign_change_loop(x, [i \in 1..Len(x) |-> call(f, x[i])],
                                             1, Len(x) - 1)]

Run(interval, end, passes, root, data, steps, raised) ==
    [interval |-> interval, end |-> end, passes |-> passes, root |-> root,
     data |-> data, steps |-> steps, raised |-> raised]

Step(prev, next, stop) == [x |-> prev, next |-> next, stop |-> stop]

\* lines 1565 and 1700
interval_converged(f_c, prev_c, error, tolerance) ==
    Lt(FAbs(f_c), tolerance) \/ (prev_c # <<>> /\ Lt(error, tolerance))

\* a for-else branch that reports no root
max_iterations_branch_silent(interval, passes, last_c, data, steps) ==
    Run(interval, "max", passes, <<>>, data, steps, "")

\* the for-else branch of lines 1587-1598 and 1722-1733 reads c and f_c,
\* which are unbound when the loop body never ran
max_iterations_branch(interval, passes, last_c, data, steps) ==
    IF last_c = <<>>
    THEN Run(interval, "max", passes, <<>>, data, steps, "UnboundLocalError")
    ELSE Run(interval, "max", passes, last_c, data, steps, "")

\* lines 1529-1598: the loop of one interval; prev_c and last_c are <<>>
\* for None and for an unbound c
RECURSIVE bisection_loop(_, _, _, _, _, _, _, _, _, _)
bisection_loop(f, tolerance, max_iter, interval, i, a, b, prev_c, data, steps) ==
    IF i >= max_iter
    THEN max_iterations_branch(interval, i, prev_c, data, steps)
    ELSE LET c == Div(Add(a, b), Two)
             f_a == call(f, a)
             f_b == call(f, b)
             f_c == call(f, c)
             error == IF prev_c # <<>> THEN relative_error(c, prev_c[1]) ELSE Inf
             stop == interval_converged(f_c, prev_c, error, tolerance)
             remarks ==
                 IF Lt(FAbs(f_c), tolerance) THEN "Converged by function value"
                 ELSE IF prev_c # <<>> /\ Lt(error, tolerance)
                 THEN "Converged by error tolerance"
                 ELSE IF i = max_iter - 1 THEN "Max iterations reached"
                 ELSE ""
             rec == [Iteration |-> i, xl |-> a, xr |-> c, xu |-> b,
                     f_xl |-> f_a, f_xu |-> f_b,
                     a_pct |-> IF prev_c # <<>> THEN <<error>> ELSE <<"N/A">>,
                     product |-> Mul(f_a, f_b), Remarks |-> remarks]
         IN  IF stop
             THEN Run(interval, "converged", i + 1, <<c>>, Append(data, rec),
                      Append(steps, Step(prev_c, c, TRUE)), "")
             ELSE bisection_loop(f, tolerance, max_iter, interval, i + 1,
                      IF Lt(Mul(f_a, f_c), Zero) THEN a ELSE c,
                      IF Lt(Mul(f_a, f_c), Zero) THEN c ELSE b,
                      <<c>>, Append(data, rec),
                      Append(steps, Step(prev_c, c, FALSE)))

\* lines 1656-1733
RECURSIVE regula_falsi_loop(_, _, _, _, _, _, _, _, _, _)
regula_falsi_loop(f, tolerance, max_iter, interval, i, a, b, prev_c, data, steps) ==
    IF i >= max_iter
    THEN max_iterations_branch(interval, i, prev_c, data, steps)
    ELSE LET f_a == call(f, a)
             f_b == call(f, b)
         IN  IF near_zero(Sub(f_b, f_a))
             THEN Run(interval, "degenerate", i + 1, <<>>, data, steps, "")
             ELSE LET c == Sub(a, Div(Mul(f_a, Sub(b, a)), Sub(f_b, f_a)))
                      f_c == call(f, c)
                      error == IF prev_c # <<>> THEN relative_error(c, prev_c[1])
                               ELSE Inf
                      stop == interval_converged(f_c, prev_c, error, tolerance)
                      remarks ==
                          IF Lt(FAbs(f_c), tolerance) THEN "Converged by function value"
                          ELSE IF Lt(error, tolerance) THEN "Converged by error tolerance"
                          ELSE IF i = max_iter - 1 THEN "Max iterations reached"
                          ELSE ""
                      rec == [Iteration |-> i, xl |-> a, xu |-> b, xr |-> c,
                              a |-> IF prev_c # <<>> THEN <<error>> ELSE <<"N/A">>,
                              f_xl |-> f_a, f_xu |-> f_b, f_xr |-> f_c,
                              product |-> Mul(f_a, f_c), Remarks |-> remarks]
                  IN  IF stop
                      THEN Run(interval, "converged", i + 1, <<c>>, Append(data, rec),
                               Append(steps, Step(prev_c, c, TRUE)), "")
                      ELSE regula_falsi_loop(f, tolerance, max_iter, interval, i + 1,
                               IF Lt(Mul(f_a, f_c), Zero) THEN a ELSE c,
                               IF Lt(Mul(f_a, f_c), Zero) THEN c ELSE b,
                               <<c>>, Append(data, rec),
                               Append(steps, Step(prev_c, c, FALSE)))

bisection_interval(f, tolerance, max_iter, interval) ==
    bisection_loop(f, tolerance, max_iter, interval, 0, interval[1], interval[2],
                   <<>>, <<>>, <<>>)

regula_falsi_interval(f, tolerance, max_iter, interval) ==
    regula_falsi_loop(f, tolerance, max_iter, interval, 0, interval[1], interval[2],
                      <<>>, <<>>, <<>>)

\* a loop over the intervals that a near-zero denominator ends as well
passes_run_until_degenerate(all_runs) ==
    LET bad == {k \in 1..Len(all_runs) :
                   all_runs[k].raised # "" \/ all_runs[k].end = "degenerate"}
    IN  IF bad = {} THEN all_runs
        ELSE SubSeq(all_runs, 1, CHOOSE k \in bad : \A j \in bad : k <= j)

\* the passes of "for interval_idx, (a, b) in enumerate(intervals)" that ran:
\* an exception in one interval ends the method there
passes_run(all_runs) ==
    LET bad == {k \in 1..Len(all_runs) : all_runs[k].raised # ""}
    IN  IF bad = {} THEN all_runs
        ELSE SubSeq(all_runs, 1, CHOOSE k \in bad : \A j \in bad : k <= j)

first_raised(runs) ==
    IF runs # <<>> /\ runs[Len(runs)].raised # "" THEN runs[Len(runs)].raised ELSE ""

with_root(runs) == SelectSeq(runs, LAMBDA r : r.root # <<>>)

MethodResult(raised, self_roots, self_iterations_data, intervals, runs) ==
    [raised |-> raised, roots |-> self_roots, iterations_data |-> self_iterations_data,
     intervals |-> intervals, runs |-> runs]

\* lines 1600-1614 and 1735-1749: the summary that publishes roots_found and
\* all_iterations; it is not reached when an interval raised
summary(runs, self_roots, self_iterations_data, intervals) ==
    LET found == with_root(runs)
    IN  IF first_raised(runs) # ""
        THEN MethodResult(first_raised(runs), self_roots, self_iterations_data, intervals, runs)
        ELSE IF found # <<>>
        THEN MethodResult("",
                 self_roots \o [k \in 1..Len(found) |-> found[k].root[1]],
                 [k \in 1..Len(found) |->
                     [root |-> found[k].root[1], data |-> found[k].data]],
                 intervals, runs)
        ELSE MethodResult("", self_roots, self_iterations_data, intervals, runs)

\* a bisection_method without the early return of lines 1507-1510, which
\* searches the whole range when the scanner found no interval
bisection_method_whole_range(f, x_min, x_max, tolerance, max_iter, self_roots, self_iterations_data) ==
    summary(<<bisection_interval(f, tolerance, max_iter, <<x_min, x_max>>)>>,
            self_roots, self_iterations_data, <<>>)

\* lines 1501-1614
bisection_method(f, x_min, x_max, tolerance, max_iter, self_roots, self_iterations_data) ==
    LET scan == find_sign_change_intervals(f, x_min, x_max)
        intervals == scan.intervals
    IN  IF scan.raised # ""
        THEN MethodResult(scan.raised, self_roots, self_iterations_data, <<>>, <<>>)
        ELSE IF intervals = <<>>
        THEN MethodResult("", self_roots, self_iterations_data, intervals, <<>>)
        ELSE summary(passes_run([k \in 1..Len(intervals) |->
                         bisection_interval(f, tolerance, max_iter, intervals[k])]),
                     self_roots, self_iterations_data, intervals)

\* lines 1628-1749
regula_falsi_method(f, x_min, x_max, tolerance, max_iter, self_roots, self_iterations_data) ==
    LET scan == find_sign_change_intervals(f, x_min, x_max)
        intervals == scan.intervals
    IN  IF scan.raised # ""
        THEN MethodResult(scan.raised, self_roots, self_iterations_data, <<>>, <<>>)
        ELSE IF intervals = <<>>
        THEN MethodResult("", self_roots, self_iterations_data, intervals, <<>>)
        ELSE summary(passes_run([k \in 1..Len(intervals) |->
                         regula_falsi_interval(f, tolerance, max_iter, intervals[k])]),
                     self_roots, self_iterations_data, intervals)

\* line 1790
newton_converged(f_x, error, tolerance) ==
    Lt(FAbs(f_x), tolerance) \/ Lt(error, tolerance)

\* lines 1761-1815: the loop from pass i on
RECURSIVE newton_loop(_, _, _, _, _, _, _, _)
newton_loop(f, fp, tolerance, max_iter, i, x, data, steps) ==
    IF i >= max_iter
    THEN Run(<<>>, "max", i, <<x>>, data, steps, "")
    ELSE LET f_x == call(f, x)
             f_prime_x == call(fp, x)
         IN  IF near_zero(f_prime_x)
             THEN Run(<<>>, "degenerate", i + 1, <<>>, data, steps, "")
             ELSE LET next_x == Sub(x, Div(f_x, f_prime_x))
                      error == relative_error(next_x, x)
                      rec == [Iteration |-> i, xl |-> x, a |-> error,
                              f_x |-> f_x, f_prime |-> f_prime_x]
                      stop == newton_converged(f_x, error, tolerance)
                  IN  IF stop
                      THEN Run(<<>>, "converged", i + 1, <<next_x>>, Append(data, rec),
                               Append(steps, Step(<<x>>, next_x, TRUE)), "")
                      ELSE newton_loop(f, fp, tolerance, max_iter, i + 1, next_x,
                               Append(data, rec),
                               Append(steps, Step(<<x>>, next_x, FALSE)))

\* a publish that stores the records of a run that found no root
publish_records_kept(run, self_roots, self_iterations_data) ==
    MethodResult(run.raised,
        IF run.root = <<>> THEN self_roots ELSE Append(self_roots, run.root[1]),
        Append(self_iterations_data, [root |-> run.root, data |-> run.data]),
        <<>>, <<run>>)

\* a publish that appends the root and forgets its trace
publish_root_only(run, self_roots, self_iterations_data) ==
    IF run.root = <<>>
    THEN MethodResult(run.raised, self_roots, self_iterations_data, <<>>, <<run>>)
    ELSE MethodResult(run.raised, Append(self_roots, run.root[1]),
             self_iterations_data, <<>>, <<run>>)

\* lines 1797-1800, 1811-1814, 1864-1867 and 1878-1881
publish(run, self_roots, self_iterations_data) ==
    IF run.root = <<>>
    THEN MethodResult(run.raised, self_roots, self_iterations_data, <<>>, <<run>>)
    ELSE MethodResult(run.raised, Append(self_roots, run.root[1]),
             Append(self_iterations_data, [root |-> run.root[1], data |-> run.data]),
             <<>>, <<run>>)

\* lines 1751-1815
newton_raphson_method(f, fp, initial_guess, tolerance, max_iter, self_roots, self_iterations_data) ==
    publish(newton_loop(f, fp, tolerance, max_iter, 0, initial_guess, <<>>, <<>>),
            self_roots, self_iterations_data)

\* line 1853
secant_converged(f_x2, error, tolerance) ==
    Lt(FAbs(f_x2), tolerance) \/ Lt(error, tolerance)

\* lines 1826-1882: the loop from pass i on
RECURSIVE secant_loop(_, _, _, _, _, _, _, _)
secant_loop(f, tolerance, max_iter, i, x0, x1, data, steps) ==
    IF i >= max_iter
    THEN Run(<<>>, "max", i, <<x1>>, data, steps, "")
    ELSE LET f_x0 == call(f, x0)
             f_x1 == call(f, x1)
         IN  IF near_zero(Sub(f_x1, f_x0))
             THEN Run(<<>>, "degenerate", i + 1, <<>>, data, steps, "")
             ELSE LET x2 == Sub(x1, Div(Mul(f_x1, Sub(x1, x0)), Sub(f_x1, f_x0)))
                      f_x2 == call(f, x2)
                      error == relative_error(x2, x1)
                      rec == [Iteration |-> i, xi_prev |-> x0, xi |-> x1, xi_next |-> x2,
                              a |-> error, f_xi_prev |-> f_x0, f_xi |-> f_x1,
                              f_xi_next |-> f_x2]
                      stop == secant_converged(f_x2, error, tolerance)
                  IN  IF stop
                      THEN Run(<<>>, "converged", i + 1, <<x2>>, Append(data, rec),
                               Append(steps, Step(<<x1>>, x2, TRUE)), "")
                      ELSE secant_loop(f, tolerance, max_iter, i + 1, x1, x2,
                               Append(data, rec),
                               Append(steps, Step(<<x1>>, x2, FALSE)))

\* lines 1817-1882
secant_method(f, x0, x1, tolerance, max_iter, self_roots, self_iterations_data) ==
    publish(secant_loop(f, tolerance, max_iter, 0, x0, x1, <<>>, <<>>),
            self_roots, self_iterations_data)

\* the number of samples of graphical_method, line 1318
graph_points == 1000

Sgn(n) == IF n > 0 THEN 1 ELSE IF n < 0 THEN -1 ELSE 0

\* the sign of the float product a * b (nan for nan operands and for
\* inf * 0): the comparisons of lines 1324 and 1383 read nothing else of it
product_sign(a, b) ==
    IF a = NaN \/ b = NaN \/ (a[2] = 0 /\ b[1] = 0) \/ (b[2] = 0 /\ a[1] = 0)
    THEN NaN
    ELSE Int2Rat(Sgn(a[1]) * Sgn(b[1]))

\* line 1326: x[i-1] - y[i-1] * (x[i] - x[i-1]) / (y[i] - y[i-1])
interpolate(x0, x1, y0, y1) == Sub(x0, Div(Mul(y0, Sub(x1, x0)), Sub(y1, y0)))

\* lines 1323-1327: the roots appended by the passes lo..hi of the loop, each
\* with the pair of samples it was computed from
RECURSIVE graphical_loop(_, _, _, _)
graphical_loop(x, y, lo, hi) ==
    IF lo > hi THEN <<>>
    ELSE IF lo = hi
    THEN IF Le(product_sign(y[lo], y[lo + 1]), Zero)
         THEN <<Run(<<x[lo], x[lo + 1]>>, "graphical", 0,
                    <<interpolate(x[lo], x[lo + 1], y[lo], y[lo + 1])>>,
                    <<>>, <<>>, "")>>
         ELSE <<>>
    ELSE graphical_loop(x, y, lo, (lo + hi) \div 2)
             \o graphical_loop(x, y, (lo + hi) \div 2 + 1, hi)

\* lines 1330-1345: every interpolated root is appended with an empty trace
graphical_publish(found, self_roots, self_iterations_data) ==
    MethodResult("",
        self_roots \o [k \in 1..Len(found) |-> found[k].root[1]],
        self_iterations_data
            \o [k \in 1..Len(found) |-> [root |-> found[k].root[1], data |-> <<>>]],
        [k \in 1..Len(found) |-> found[k].interval], found)

\* lines 1318-1327 with x the samples
graphical_samples(f, x, self_roots, self_iterations_data) ==
    graphical_publish(
        graphical_loop(x, [i \in 1..Len(x) |-> call(f, x[i])], 1, Len(x) - 1),
        self_roots, self_iterations_data)

\* lines 1313-1347.  As in find_sign_change_intervals, a function that does
\* not depend on x returns a scalar and y[i-1] raises.
graphical_method(f, x_min, x_max, self_roots, self_iterations_data) ==
    IF ~depends_on_x(f.body)
    THEN MethodResult("TypeError", self_roots, self_iterations_data, <<>>, <<>>)
    ELSE graphical_samples(f, linspace(x_min, x_max, graph_points),
                           self_roots, self_iterations_data)

\* a record that does not carry the count of narrowing steps
refine_record_unnumbered(iter_count, x_l, x_r, f_xl, f_xu, remarks) ==
    [Iteration |-> 0, xl |-> x_l, x |-> Sub(x_r, x_l), xu |-> x_r,
     f_xl |-> f_xl, f_xu |-> f_xu, product |-> Mul(f_xl, f_xu), Remarks |-> remarks]

\* a record of the refinement trace, lines 1411-1420 and 1457-1466
refine_record(iter_count, x_l, x_r, f_xl, f_xu, remarks) ==
    [Iteration |-> iter_count, xl |-> x_l, x |-> Sub(x_r, x_l), xu |-> x_r,
     f_xl |-> f_xl, f_xu |-> f_xu, product |-> Mul(f_xl, f_xu), Remarks |-> remarks]

\* a final record without a remark
refine_final_no_remark(interval, iter_count, x_l, x_r, f_xl, f_xu, tolerance, iter_data) ==
    Run(interval, "refined", iter_count, <<Div(Add(x_l, x_r), Two)>>,
        Append(iter_data, refine_record(iter_count, x_l, x_r, f_xl, f_xu, "")),
        <<>>, "")

\* lines 1440-1473: the final record and the root of a refinement that left
\* its loop with the interval (x_l, x_r)
refine_final(interval, iter_count, x_l, x_r, f_xl, f_xu, tolerance, iter_data) ==
    IF Lt(FAbs(f_xl), tolerance)
    THEN Run(interval, "refined", iter_count, <<x_l>>,
             Append(iter_data,
                    refine_record(iter_count, x_l, x_r, f_xl, f_xu, "Converged at xl")),
             <<>>, "")
    ELSE IF Lt(FAbs(f_xu), tolerance)
    THEN Run(interval, "refined", iter_count, <<x_r>>,
             Append(iter_data,
                    refine_record(iter_count, x_l, x_r, f_xl, f_xu, "Converged at xu")),
             <<>>, "")
    ELSE Run(interval, "refined", iter_count, <<Div(Add(x_l, x_r), Two)>>,
             Append(iter_data,
                    refine_record(iter_count, x_l, x_r, f_xl, f_xu, "Final approximation")),
             <<>>, "")

\* lines 1441-1445
refine_end(f, interval, iter_count, x_l, x_r, tolerance, iter_data) ==
    refine_final(interval, iter_count, x_l, x_r, call(f, x_l), call(f, x_r),
                 tolerance, iter_data)

\* lines 1391-1438: the while loop of one refinement from pass iter_count on
RECURSIVE refine_loop(_, _, _, _, _, _, _, _)
refine_loop(f, interval, tolerance, max_iter, iter_count, x_l, x_r, iter_data) ==
    IF iter_count >= max_iter
    THEN refine_end(f, interval, iter_count, x_l, x_r, tolerance, iter_data)
    ELSE LET f_xl == call(f, x_l)
             f_xu == call(f, x_r)
             delta_x == Sub(x_r, x_l)
             x_mid == Div(Add(x_l, x_r), Two)
             f_mid == call(f, x_mid)
             narrowed == Append(iter_data,
                                refine_record(iter_count, x_l, x_r, f_xl, f_xu, ""))
         IN  IF Lt(FAbs(f_xl), tolerance) \/ Lt(FAbs(f_xu), tolerance)
                    \/ Lt(delta_x, tolerance)
             THEN refine_end(f, interval, iter_count, x_l, x_r, tolerance, iter_data)
             ELSE IF Lt(FAbs(f_mid), tolerance) \/ Lt(delta_x, tolerance)
             THEN refine_end(f, interval, iter_count + 1,
                             IF Lt(product_sign(f_xl, f_mid), Zero) THEN x_l ELSE x_mid,
                             IF Lt(product_sign(f_xl, f_mid), Zero) THEN x_mid ELSE x_r,
                             tolerance, narrowed)
             ELSE refine_loop(f, interval, tolerance, max_iter, iter_count + 1,
                              IF Lt(product_sign(f_xl, f_mid), Zero) THEN x_l ELSE x_mid,
                              IF Lt(product_sign(f_xl, f_mid), Zero) THEN x_mid ELSE x_r,
                              narrowed)

\* lines 1359-1481: the walk from x on; found holds a Run per root found so
\* far, "direct" for a grid point with |f(x)| < tolerance
RECURSIVE incremental_walk(_, _, _, _, _, _, _)
incremental_walk(f, x, x_max, step_size, tolerance, max_iter, found) ==
    IF ~Le(x, x_max) THEN found
    ELSE IF Lt(FAbs(call(f, x)), tolerance)
    THEN incremental_walk(f, Add(x, step_size), x_max, step_size, tolerance, max_iter,
             Append(found, Run(<<x, x>>, "direct", 0, <<x>>, <<>>, <<>>, "")))
    ELSE IF Le(Add(x, step_size), x_max)
            /\ Lt(product_sign(call(f, x), call(f, Add(x, step_size))), Zero)
    THEN incremental_walk(f, Add(x, step_size), x_max, step_size, tolerance, max_iter,
             Append(found,
                    refine_loop(f, <<x, Add(x, step_size)>>, tolerance, max_iter, 0,
                                x, Add(x, step_size), <<>>)))
    ELSE incremental_walk(f, Add(x, step_size), x_max, step_size, tolerance, max_iter,
                          found)

\* lines 1483-1499: the roots are appended, iterations_data is replaced
incremental_publish(found, self_roots, self_iterations_data) ==
    IF found # <<>>
    THEN MethodResult("",
             self_roots \o [k \in 1..Len(found) |-> found[k].root[1]],
             [k \in 1..Len(found) |->
                 [root |-> found[k].root[1], data |-> found[k].data]],
             <<>>, found)
    ELSE MethodResult("", self_roots, self_iterations_data, <<>>, <<>>)

\* lines 1349-1499, for a positive step_size
incremental_method(f, x_min, x_max, step_size, tolerance, max_iter, self_roots, self_iterations_data) ==
    incremental_publish(
        incremental_walk(f, x_min, x_max, step_size, tolerance, max_iter, <<>>),
        self_roots, self_iterations_data)

(***************************************************************************)
(* format_number, lines 970-981.  A cell value is [k, v]: k = "int" or     *)
(* "float" with v the number, k = "str" with v the text, k = "None".       *)
(***************************************************************************)
DigitChar(i) == <<"0", "1", "2", "3", "4", "5", "6", "7", "8", "9">>[i + 1]

\* round half to even of n/d for n >= 0, d > 0
round_half_even(n, d) ==
    IF 2 * (n % d) > d \/ (2 * (n % d) = d /\ (n \div d) % 2 = 1)
    THEN n \div d + 1
    ELSE n \div d

\* round(value, 4) of a float
round4(v) == Rat(Sgn(v[1]) * round_half_even(IAbs(v[1]) * 10000, v[2]), 10000)

\* the p with 10^-p <= n/d < 10^(1-p), for 0 < n/d < 1
RECURSIVE decimal_exponent(_, _)
decimal_exponent(n, d) == IF n * 10 >= d THEN 1 ELSE 1 + decimal_exponent(n * 10, d)

\* n * 10^k
RECURSIVE shift10(_, _)
shift10(n, k) == IF k = 0 THEN n ELSE shift10(n * 10, k - 1)

\* the first k + 1 significant digits of rem/d (0 < rem/d < 1 with a nonzero
\* first decimal) as an integer, with the remainder left: <<digits, rem>>
RECURSIVE long_division(_, _, _, _)
long_division(acc, rem, d, k) ==
    IF k = 0 THEN <<acc, rem>>
    ELSE long_division(acc * 10 + (rem * 10) \div d, (rem * 10) % d, d, k - 1)

\* the five digits of the mantissa, rounded half to even on what follows
mantissa_digits(ld, d) ==
    IF 2 * ld[2] > d \/ (2 * ld[2] = d /\ ld[1] % 2 = 1) THEN ld[1] + 1 ELSE ld[1]

\* "d.dddde-pp" from the digits m (10000..100000) and the exponent -p
sci_text(negative, m, p) ==
    (IF negative THEN <<"-">> ELSE <<>>)
        \o (IF m = 100000
            THEN <<"1", ".", "0", "0", "0", "0", "e", "-",
                   DigitChar((p - 1) \div 10), DigitChar((p - 1) % 10)>>
            ELSE <<DigitChar(m \div 10000), ".", DigitChar((m \div 1000) % 10),
                   DigitChar((m \div 100) % 10), DigitChar((m \div 10) % 10),
                   DigitChar(m % 10), "e", "-", DigitChar(p \div 10), DigitChar(p % 10)>>)

\* the text for a nonzero value whose first significant digit is the p-th decimal
sci_nonzero(v, p) ==
    sci_text(v[1] < 0,
             mantissa_digits(long_division(0, shift10(IAbs(v[1]), p - 1), v[2], 5), v[2]),
             p)

\* f"{value:.4e}" for |value| < 1e-4
format_4e(v) ==
    IF v[1] = 0 THEN <<"0", ".", "0", "0", "0", "0", "e", "+", "0", "0">>
    ELSE sci_nonzero(v, decimal_exponent(IAbs(v[1]), v[2]))

IsNumeric(value) == value.k \in {"int", "float"}

\* a format_number that rounds small values like the others
format_number_always_rounds(value, use_full_precision) ==
    IF IsNumeric(value) /\ ~use_full_precision
    THEN [k |-> value.k, v |-> round4(value.v)]
    ELSE value

\* lines 970-981
format_number(value, use_full_precision) ==
    IF IsNumeric(value)
    THEN IF use_full_precision THEN value
         ELSE IF Lt(FAbs(value.v), Rat(1, 10000))
         THEN [k |-> "str", v |-> format_4e(value.v)]
         ELSE [k |-> value.k, v |-> round4(value.v)]
    ELSE value

\* ---- the inputs of a run ----

\* "f(x) = x^2 - 5"
Quadratic ==
    <<"f", "(", "x", ")", " ", "=", " ", "x", "^", "2", " ", "-", " ", "5">>

\* "  f(x) = 2x - 6  "
Linear ==
    <<" ", " ", "f", "(", "x", ")", " ", "=", " ", "2", "x", " ", "-", " ", "6", " ", " ">>

\* "f(x) = x^2 + 1"
NoRealRoot ==
    <<"f", "(", "x", ")", " ", "=", " ", "x", "^", "2", " ", "+", " ", "1">>

\* "f(x) = pow(x, 2) - 4"
UsesPow ==
    <<"f", "(", "x", ")", " ", "=", " ", "p", "o", "w", "(", "x", ",", " ", "2", ")", " ", "-", " ", "4">>

\* "f(x)=x - 3"
NoSpaceBeforeEquals ==
    <<"f", "(", "x", ")", "=", "x", " ", "-", " ", "3">>

\* "f(x) = sqrt(x) - 2"
UsesSqrt ==
    <<"f", "(", "x", ")", " ", "=", " ", "s", "q", "r", "t", "(", "x", ")", " ", "-", " ", "2">>

\* "f(x) = 'x.foo'"
QuotedText ==
    <<"f", "(", "x", ")", " ", "=", " ", "'", "x", ".", "f", "o", "o", "'">>

\* "f(x) = x^2"
Square ==
    <<"f", "(", "x", ")", " ", "=", " ", "x", "^", "2">>

\* "f(x) = 1/(x - 4)"
Pole ==
    <<"f", "(", "x", ")", " ", "=", " ", "1", "/", "(", "x", " ", "-", " ", "4", ")">>

\* "f(x) = e^x + e^2"
TwoExp ==
    <<"f", "(", "x", ")", " ", "=", " ", "e", "^", "x", " ", "+", " ", "e", "^", "2">>

\* "f(x)=x^3 - 0.165*x^2 + 3.993e-4"
ScenarioD ==
    <<"f", "(", "x", ")", "=", "x", "^", "3", " ", "-", " ", "0", ".", "1", "6", "5",
      "*", "x", "^", "2", " ", "+", " ", "3", ".", "9", "9", "3", "e", "-", "4">>

\* "f(x) = 4x + 1"
SmallRoot ==
    <<"f", "(", "x", ")", " ", "=", " ", "4", "x", " ", "+", " ", "1">>

\* "f(x) = 100x - 1234"
FarRoot ==
    <<"f", "(", "x", ")", " ", "=", " ", "1", "0", "0", "x", " ", "-", " ", "1", "2", "3", "4">>

\* "f(x) = sqrt(x) + 1e-3"
SciLiteral ==
    <<"f", "(", "x", ")", " ", "=", " ", "s", "q", "r", "t", "(", "x", ")", " ", "+", " ",
      "1", "e", "-", "3">>

Texts == {Quadratic, Linear, NoRealRoot, UsesPow, NoSpaceBeforeEquals, UsesSqrt,
          QuotedText, Square, Pole, TwoExp, ScenarioD, SmallRoot, FarRoot, SciLiteral}

\* the largest max_iterations entered
MaxIterBound == 2

Tolerances == {<<1, 100>>, <<5, 1>>}
Ranges == {<<-99, 99>>, <<99, -99>>, <<3, 3>>}
Guesses == {0, 3}
SecondGuesses == {3}

\* a range whose samples are 4 apart, -1 and 3 among them
WideRange == <<-197, 199>>

\* the ranges given to graphical_method and to incremental_method
GraphRanges == {<<0, 999>>, <<999, 0>>, <<3, 3>>}
IncRanges == {<<-3, 3>>, <<3, -3>>, <<3, 3>>}
StepSizes == {<<1, 1>>, <<1, 2>>}
IncTolerances == {<<1, 10>>, <<2, 1>>}

\* the initial value "0.1" of the step size field (line 496)
InitialStepSize == <<1, 10>>

\* what the entry fields hold when "Find Roots" is pressed; the guesses and
\* the step size keep their initial values where the chosen method does not
\* read them (lines 464-512); graphical_method reads neither the tolerance
\* nor the maximum of iterations
Entries(method, range, step_size, initial_guess, second_guess, tolerance, max_iter) ==
    [method |-> method, x_min |-> range[1], x_max |-> range[2],
     step_size |-> step_size,
     initial_guess |-> initial_guess, second_guess |-> second_guess,
     tolerance |-> tolerance, max_iter |-> max_iter]

Inputs ==
    {Entries(m, r, InitialStepSize, 1, 2, t, n) :
        m \in {"Bisection Method", "Regula Falsi Method"}, r \in Ranges,
        t \in Tolerances, n \in 0..MaxIterBound}
    \cup {Entries(m, WideRange, InitialStepSize, 1, 2, <<1, 100>>, MaxIterBound) :
        m \in {"Bisection Method", "Regula Falsi Method"}}
    \cup {Entries("Newton-Raphson Method", <<-5, 5>>, InitialStepSize, g, 2, t, n) :
        g \in Guesses, t \in Tolerances, n \in 0..MaxIterBound}
    \cup {Entries("Secant Method", <<-5, 5>>, InitialStepSize, g, h, t, n) :
        g \in Guesses, h \in SecondGuesses, t \in Tolerances, n \in 0..MaxIterBound}
    \cup {Entries("Newton-Raphson Method", <<-5, 5>>, InitialStepSize, 1, 2,
                  <<1, 100>>, MaxIterBound),
          Entries("Secant Method", <<-5, 5>>, InitialStepSize, 0, 1,
                  <<1, 100>>, MaxIterBound)}
    \cup {Entries("Graphical Method", r, InitialStepSize, 1, 2, t, MaxIterBound) :
        r \in GraphRanges, t \in {<<1, 100>>}}
    \cup {Entries("Incremental Method", r, h, 1, 2, t, n) :
        r \in IncRanges, h \in StepSizes, t \in IncTolerances, n \in 0..MaxIterBound}

\* the cell values given to format_number
FormatDenominators == {1, 3, 7, 32, 30000, 70000, 1000000}
FormatValues ==
    {[k |-> "float", v |-> Rat(n, d)] : n \in -4..4, d \in FormatDenominators}
    \cup {[k |-> "int", v |-> Int2Rat(n)] : n \in -2..2}
    \cup {[k |-> "str", v |-> <<"N", "/", "A">>], [k |-> "str", v |-> <<>>],
          [k |-> "None", v |-> <<>>]}

\* ---- the program ----

VARIABLES function, derivative, function_str, roots, iterations_data, last

vars == <<function, derivative, function_str, roots, iterations_data, last>>

\* the last operation with what it read and did (history, not program state)
Last(op, text, ret, err, entries, raised, intervals, runs) ==
    [op |-> op, text |-> text, ret |-> ret, err |-> err, entries |-> entries,
     raised |-> raised, intervals |-> intervals, runs |-> runs]

\* lines 148-197; __init__ creates no derivative attribute
Init ==
    /\ function = None
    /\ derivative = Unset
    /\ function_str = <<>>
    /\ roots = <<>>
    /\ iterations_data = <<>>
    /\ last = Last("init", <<>>, FALSE, "", <<>>, "", <<>>, <<>>)

\* a clear_results that forgets line 1250
clear_results_keeps_roots(self_roots, self_iterations_data) ==
    [roots |-> self_roots, iterations_data |-> <<>>]

\* lines 1246-1252
clear_results(self_roots, self_iterations_data) ==
    [roots |-> <<>>, iterations_data |-> <<>>]

\* the "Clear Results" button, line 534
ClearResults ==
    /\ roots' = clear_results(roots, iterations_data).roots
    /\ iterations_data' = clear_results(roots, iterations_data).iterations_data
    /\ last' = Last("clear_results", <<>>, FALSE, "", <<>>, "", <<>>, <<>>)
    /\ UNCHANGED <<function, derivative, function_str>>

\* lines 1283-1301: the dispatch on the selected method
apply_method(e, f, fp, self_roots, self_iterations_data) ==
    CASE e.method = "Graphical Method" ->
             graphical_method(f, Int2Rat(e.x_min), Int2Rat(e.x_max),
                              self_roots, self_iterations_data)
      [] e.method = "Incremental Method" ->
             incremental_method(f, Int2Rat(e.x_min), Int2Rat(e.x_max), e.step_size,
                                e.tolerance, e.max_iter, self_roots, self_iterations_data)
      [] e.method = "Bisection Method" ->
             bisection_method(f, Int2Rat(e.x_min), Int2Rat(e.x_max), e.tolerance,
                              e.max_iter, self_roots, self_iterations_data)
      [] e.method = "Regula Falsi Method" ->
             regula_falsi_method(f, Int2Rat(e.x_min), Int2Rat(e.x_max), e.tolerance,
                                 e.max_iter, self_roots, self_iterations_data)
      [] e.method = "Newton-Raphson Method" ->
             newton_raphson_method(f, fp, Int2Rat(e.initial_guess), e.tolerance,
                                   e.max_iter, self_roots, self_iterations_data)
      [] e.method = "Secant Method" ->
             secant_method(f, Int2Rat(e.initial_guess), Int2Rat(e.second_guess),
                           e.tolerance, e.max_iter, self_roots, self_iterations_data)

\* the pairs (function, derivative) the Texts compile to
Compiled ==
    {<<p.function, p.derivative>> :
        p \in {q \in {parse_function(t, None, Unset, <<>>) : t \in Texts} : q.ret}}

\* apply_method on cleared results, tabulated for the Compiled pairs and the
\* Inputs: what a method does depends on nothing else
method_results ==
    [c \in Compiled, e \in Inputs |-> apply_method(e, c[1], c[2], <<>>, <<>>)]

\* lines 1259-1311: find_roots from the results of clear_results and
\* parse_function on; an exception of the method is caught at line 1310 and
\* leaves the results as the method left them
AfterParse(text, cleared, p) ==
    /\ function' = p.function
    /\ derivative' = p.derivative
    /\ function_str' = p.function_str
    /\ IF ~p.ret
       THEN /\ roots' = cleared.roots
            /\ iterations_data' = cleared.iterations_data
            /\ last' = Last("find_roots", text, FALSE, p.err, <<>>, "", <<>>, <<>>)
       ELSE \E e \in Inputs :
                LET r == method_results[<<p.function, p.derivative>>, e]
                IN  /\ roots' = r.roots
                    /\ iterations_data' = r.iterations_data
                    /\ last' = Last("find_roots", text, TRUE, "", e, r.raised,
                                    r.intervals, r.runs)

\* lines 1254-1311: clear_results, parse_function, and on success the selected
\* method
FindRoots(text) ==
    AfterParse(text, clear_results(roots, iterations_data),
               parse_function(text, function, derivative, function_str))

Next ==
    \/ ClearResults
    \/ \E text \in Texts : FindRoots(text)

Spec == Init /\ [][Next]_vars

\* line 1207: update_table formats a cell; use_full_precision is the state of
\* the "Use Full Precision" checkbox (line 169)
FormatNumber(value, use_full_precision) ==
    /\ last' = [op |-> "format_number", value |-> value,
                use_full_precision |-> use_full_precision,
                result |-> format_number(value, use_full_precision)]
    /\ UNCHANGED <<function, derivative, function_str, roots, iterations_data>>

NextFormat ==
    \E value \in FormatValues, use_full_precision \in BOOLEAN :
        FormatNumber(value, use_full_precision)

SpecFormat == Init /\ [][NextFormat]_vars

\* the x_min and x_max, and the step sizes, given to the walk of
\* incremental_method; float() accepts a step size of 0 (line 1287)
WalkEnds == -3..3
WalkSteps == {<<0, 1>>, <<1, 2>>, <<1, 1>>}

\* lines 1354-1357: incremental_method is entered and x = x_min
StartWalk(x_min, x_max, step_size) ==
    /\ IF last.op = "incremental_method" THEN last.at = "returned" ELSE TRUE
    /\ last' = [op |-> "incremental_method", at |-> "while", x |-> Int2Rat(x_min),
                x_max |-> Int2Rat(x_max), step_size |-> step_size]
    /\ UNCHANGED <<function, derivative, function_str, roots, iterations_data>>

\* line 1359: the test of "while x <= x_max" holds and the body is entered
WalkTest ==
    /\ last.op = "incremental_method" /\ last.at = "while"
    /\ Le(last.x, last.x_max)
    /\ last' = [last EXCEPT !.at = "body"]
    /\ UNCHANGED <<function, derivative, function_str, roots, iterations_data>>

\* lines 1360-1483: the body of the loop.  Each of its three paths (direct
\* root, refinement, neither) ends with x += step_size, and nothing else it
\* does is read by the loop test; a refinement inside it is the bounded loop
\* of refine_loop.
WalkBody ==
    /\ last.op = "incremental_method" /\ last.at = "body"
    /\ last' = [last EXCEPT !.x = Add(last.x, last.step_size), !.at = "while"]
    /\ UNCHANGED <<function, derivative, function_str, roots, iterations_data>>

\* the loop test fails and the method goes on to publish and return
\* (lines 1486-1499)
WalkExit ==
    /\ last.op = "incremental_method" /\ last.at = "while"
    /\ ~Le(last.x, last.x_max)
    /\ last' = [last EXCEPT !.at = "returned"]
    /\ UNCHANGED <<function, derivative, function_str, roots, iterations_data>>

NextWalk ==
    \/ \E x_min \in WalkEnds, x_max \in WalkEnds, step_size \in WalkSteps :
           StartWalk(x_min, x_max, step_size)
    \/ WalkTest
    \/ WalkBody
    \/ WalkExit

\* the method runs on the single thread of the GUI: once entered, its next
\* step is taken
SpecWalk ==
    Init /\ [][NextWalk]_vars
         /\ WF_vars(WalkTest) /\ WF_vars(WalkBody) /\ WF_vars(WalkExit)

(***************************************************************************)
(* The claims.                                                             *)
(***************************************************************************)
Searched == last.op = "find_roots"

Compiles == Searched /\ last.ret

scan_methods == {"Bisection Method", "Regula Falsi Method"}

Scanned == Compiles /\ last.entries.method \in scan_methods

\* C1: parse_function never partially succeeds: after a call, function and
\* derivative are either both the ones compiled from the submitted text or both
\* what they were before the call.
C1_NeverPartiallySucceeds ==
    [][last'.op = "find_roots" =>
          \/ (function' = function /\ derivative' = derivative)
          \/ (last'.ret /\ <<function', derivative'>> \in Compiled)]_vars

SymbolTable ==
    {<<"x">>, <<"s", "i", "n">>, <<"c", "o", "s">>, <<"t", "a", "n">>,
     <<"l", "o", "g">>, <<"e", "x", "p">>, <<"e">>, <<"p", "i">>}

\* the identifiers of the expression that follows the prefix
identifiers(text) ==
    LET ts == tokenize(From(strip(text), Len(Prefix)))
    IN  {ts[i].v : i \in {j \in 1..Len(ts) : ts[j].t = "name"}}

\* C2: the expression is evaluated against the symbol table {x, sin, cos, tan,
\* log, exp, e, pi}: for a function text that uses an identifier outside this
\* set, parse_function fails and no function is compiled.
C2_SymbolTableRestricted ==
    (Searched /\ has_prefix(strip(last.text))
        /\ identifiers(last.text) \ SymbolTable # {})
    => ~last.ret

\* C3: for an input text that, trimmed, does not begin with "f(x) =",
\* parse_function reports an error and returns False without changing function,
\* derivative or function_str.
C3_PrefixCheck ==
    [][(last'.op = "find_roots" /\ ~startswith(strip(last'.text), Prefix)) =>
          /\ ~last'.ret
          /\ last'.err = "prefix"
          /\ function' = function
          /\ derivative' = derivative
          /\ function_str' = function_str]_vars

\* a text without the prefix was submitted after a function had been compiled
C3_Witness ==
    /\ Searched
    /\ ~startswith(strip(last.text), Prefix)
    /\ derivative # Unset
    /\ function_str # <<>>

\* C4: when parse_function fails inside find_roots the search is aborted: no
\* method is run, and roots and iterations_data are empty when find_roots
\* returns.
C4_ParseFailureAborts ==
    (Searched /\ ~last.ret) =>
        /\ roots = <<>>
        /\ iterations_data = <<>>
        /\ last.intervals = <<>>
        /\ last.runs = <<>>

\* a parse failure with a function compiled by an earlier search still in place
C4_Witness == Searched /\ ~last.ret /\ last.err # "prefix" /\ derivative # Unset

\* the adjacent sample pairs whose values have a product <= 0, by increasing index
sign_changes(f, x_min, x_max) ==
    LET x == linspace(x_min, x_max, num_points)
        at == SelectSeq([i \in 1..(num_points - 1) |-> i],
                        LAMBDA i : Le(Mul(call(f, x[i]), call(f, x[i + 1])), Zero))
    IN  [k \in 1..Len(at) |-> <<x[at[k]], x[at[k] + 1]>>]

\* C5: find_sign_change_intervals returns exactly the adjacent sample pairs
\* (x[i-1], x[i]) with y[i-1]*y[i] <= 0 and no others; a sample whose value is 0
\* counts for each adjacent pair it belongs to.
C5_ScannerPairs ==
    (Scanned /\ last.raised # "TypeError") =>
        last.intervals = sign_changes(function, Int2Rat(last.entries.x_min),
                                      Int2Rat(last.entries.x_max))

\* a sample with value 0 gave the two intervals it belongs to
C5_Witness ==
    /\ Scanned
    /\ Len(last.intervals) = 2
    /\ last.intervals[1][2] = last.intervals[2][1]
    /\ call(function, last.intervals[1][2]) = Zero

\* C6: every interval (lo, hi) returned by find_sign_change_intervals has
\* lo < hi, and the returned sequence is ordered by increasing x, for every
\* range (x_min, x_max) that find_roots passes to it.
C6_IntervalsOrdered ==
    Scanned =>
        /\ \A k \in 1..Len(last.intervals) :
               Lt(last.intervals[k][1], last.intervals[k][2])
        /\ \A k \in 1..(Len(last.intervals) - 1) :
               Lt(last.intervals[k][1], last.intervals[k + 1][1])

\* C7: every root reported by bisection_method or regula_falsi_method lies
\* inside (lo <= r <= hi) the scanner interval it was derived from, an interval
\* that find_sign_change_intervals returns on the same range.
C7_RootInsideInterval ==
    Scanned =>
        /\ Len(roots) = Len(with_root(last.runs))
        /\ \A j \in 1..Len(roots) :
               LET run == with_root(last.runs)[j]
               IN  /\ roots[j] = run.root[1]
                   /\ \E k \in 1..Len(last.intervals) :
                          last.intervals[k] = run.interval
                   /\ Le(run.interval[1], roots[j])
                   /\ Le(roots[j], run.interval[2])

Newton == Compiles /\ last.entries.method = "Newton-Raphson Method"

\* C8: Newton-Raphson applies the convergence policy with x_curr = x_{n+1} and
\* x_prev = x_n: step n is judged converged exactly when |f(x_{n+1})| < tolerance
\* or the relative error between x_n and x_{n+1} is below tolerance, and the
\* reported root is x_{n+1}.
C8_NewtonConvergencePolicy ==
    Newton =>
        LET run == last.runs[1]
            tol == last.entries.tolerance
        IN  /\ \A n \in 1..Len(run.steps) :
                   run.steps[n].stop <=>
                       \/ Lt(FAbs(call(function, run.steps[n].next)), tol)
                       \/ Lt(relative_error(run.steps[n].next, run.steps[n].x[1]), tol)
            /\ run.end = "converged" =>
                   roots = <<run.steps[Len(run.steps)].next>>

iterative_methods ==
    {"Bisection Method", "Regula Falsi Method", "Newton-Raphson Method",
     "Secant Method"}

\* C9: for bisection, regula falsi, Newton-Raphson and secant and every
\* max_iterations >= 0: when the budget is used up without convergence and
\* without a degenerate stop, the method does not fail but reports the last
\* approximation it computed as a root, together with its trace.
C9_BudgetExhaustionReports ==
    (Compiles /\ last.entries.method \in iterative_methods) =>
        \A k \in 1..Len(last.runs) :
            last.runs[k].end = "max" =>
                /\ last.runs[k].raised = ""
                /\ last.runs[k].root # <<>>
                /\ last.runs[k].steps # <<>> =>
                       last.runs[k].root =
                           <<last.runs[k].steps[Len(last.runs[k].steps)].next>>
                /\ \E j \in 1..Len(roots) :
                       /\ roots[j] = last.runs[k].root[1]
                       /\ iterations_data[j] =
                              [root |-> roots[j], data |-> last.runs[k].data]

\* C10: in bisection_method and regula_falsi_method, whenever the "maximum
\* iterations reached" branch runs for an interval, the loop body has run at
\* least once for that interval, so c and f_c are defined.
C10_FallbackAfterLoopBody ==
    Scanned =>
        \A k \in 1..Len(last.runs) :
            last.runs[k].end = "max" =>
                last.runs[k].passes >= 1 /\ last.runs[k].raised = ""

Secant == Compiles /\ last.entries.method = "Secant Method"

\* |v| < 1e-10 for a float of the model
below_1e_10(v) == v[1] = 0 /\ v[2] # 0

\* the denominator a pass divided by, read from the record the pass stored
denominator(method, rec) ==
    IF method = "Newton-Raphson Method" THEN rec.f_prime
    ELSE Sub(rec.f_xi, rec.f_xi_prev)

\* C11: Newton-Raphson never divides by f'(x_n) and secant never divides by
\* f(x1) - f(x0) when that denominator is below 1e-10 in magnitude; the pass
\* that finds such a denominator ends the method with no update and no record,
\* and Newton on f(x) = x^2 from the guess 0 stops in its first pass with no
\* iteration record.
C11_NoNearZeroDivision ==
    (Newton \/ Secant) =>
        LET run == last.runs[1]
        IN  /\ \A n \in 1..Len(run.data) :
                   ~below_1e_10(denominator(last.entries.method, run.data[n]))
            /\ run.end = "degenerate" =>
                   /\ Len(run.data) = run.passes - 1
                   /\ Len(run.steps) = run.passes - 1
                   /\ run.root = <<>>
                   /\ roots = <<>>
            /\ (Newton /\ last.text = Square /\ last.entries.initial_guess = 0
                    /\ last.entries.max_iter >= 1) =>
                   run.end = "degenerate" /\ run.passes = 1 /\ run.data = <<>>

\* Newton on x^2 from 0, and a secant run that stopped on equal values
C11_Witness ==
    \/ /\ Newton /\ last.text = Square /\ last.entries.initial_guess = 0
       /\ last.runs[1].end = "degenerate"
    \/ /\ Secant /\ last.runs[1].end = "degenerate"
       /\ Sub(call(function, Int2Rat(last.entries.second_guess)),
              call(function, Int2Rat(last.entries.initial_guess))) = Zero

RegulaFalsi == Compiles /\ last.entries.method = "Regula Falsi Method"

\* C12: in regula falsi a pass that finds |f(b) - f(a)| < 1e-10 computes no
\* interpolation and ends the loop of its interval only: nothing is raised, the
\* interval yields no root, and every later scanner interval is processed.
C12_RegulaFalsiFailsLocally ==
    (RegulaFalsi /\ \E k \in 1..Len(last.runs) : last.runs[k].end = "degenerate") =>
        /\ last.raised = ""
        /\ Len(last.runs) = Len(last.intervals)
        /\ \A k \in 1..Len(last.runs) :
               /\ last.runs[k].interval = last.intervals[k]
               /\ last.runs[k].end = "degenerate" =>
                      /\ last.runs[k].raised = ""
                      /\ last.runs[k].root = <<>>
                      /\ Len(last.runs[k].data) = last.runs[k].passes - 1
                      /\ Len(last.runs[k].steps) = last.runs[k].passes - 1

\* the first interval stopped on a near-zero denominator and a later one ran
C12_Witness ==
    /\ RegulaFalsi
    /\ Len(last.runs) >= 2
    /\ last.runs[1].end = "degenerate"
    /\ last.runs[2].passes >= 1

\* C13: when no adjacent pair of samples has a product <= 0, bisection_method
\* and regula_falsi_method return without raising, run no iteration, and leave
\* roots and iterations_data empty.
C13_NoSignChange ==
    (Scanned /\ depends_on_x(function.body)
        /\ sign_changes(function, Int2Rat(last.entries.x_min),
                        Int2Rat(last.entries.x_max)) = <<>>)
    => /\ last.raised = ""
       /\ last.runs = <<>>
       /\ roots = <<>>
       /\ iterations_data = <<>>

\* a search with max_iterations >= 1 on a range without a sign change
C13_Witness ==
    /\ Scanned
    /\ last.entries.max_iter >= 1
    /\ Lt(Int2Rat(last.entries.x_min), Int2Rat(last.entries.x_max))
    /\ last.intervals = <<>>
    /\ last.raised = ""

Graphical == Compiles /\ last.entries.method = "Graphical Method"

IsNumber(v) == v[2] # 0

\* C14: graphical_method reports, for every adjacent pair of samples with
\* y[i-1]*y[i] <= 0, one root x[i-1] - y[i-1]*(x[i]-x[i-1])/(y[i]-y[i-1]); the
\* root is a number that lies in [x[i-1], x[i]] and is stored with an empty
\* iteration trace.
C14_GraphicalRoots ==
    Graphical =>
        /\ Len(roots) = Len(last.runs)
        /\ Len(iterations_data) = Len(last.runs)
        /\ \A k \in 1..Len(last.runs) :
               LET lo == last.runs[k].interval[1]
                   hi == last.runs[k].interval[2]
               IN  /\ Le(product_sign(call(function, lo), call(function, hi)), Zero)
                   /\ roots[k] = interpolate(lo, hi, call(function, lo),
                                             call(function, hi))
                   /\ IsNumber(roots[k])
                   /\ Le(lo, roots[k])
                   /\ Le(roots[k], hi)
                   /\ iterations_data[k] = [root |-> roots[k], data |-> <<>>]

Incremental == Compiles /\ last.entries.method = "Incremental Method"

TerminalRemarks ==
    {"Converged at xl", "Converged at xu", "Interval too small", "Final approximation"}

\* the root that a terminal remark names, from the record that carries it
named_root(rec) ==
    IF rec.Remarks = "Converged at xl" THEN rec.xl
    ELSE IF rec.Remarks = "Converged at xu" THEN rec.xu
    ELSE Div(Add(rec.xl, rec.xu), Two)

\* C15: in every non-empty trace of incremental_method the last record has a
\* terminal remark ("Converged at xl", "Converged at xu", "Interval too small"
\* or "Final approximation") and the reported root is the endpoint or midpoint
\* named by that remark.
C15_TerminalRemark ==
    Incremental =>
        \A k \in 1..Len(iterations_data) :
            iterations_data[k].data # <<>> =>
                LET rec == iterations_data[k].data[Len(iterations_data[k].data)]
                IN  /\ rec.Remarks \in TerminalRemarks
                    /\ iterations_data[k].root = named_root(rec)
                    /\ roots[k] = iterations_data[k].root

\* a refinement that narrowed at least once and ended at an endpoint
C15_Witness ==
    /\ Incremental
    /\ \E k \in 1..Len(iterations_data) :
           /\ Len(iterations_data[k].data) >= 2
           /\ iterations_data[k].data[Len(iterations_data[k].data)].Remarks
                  \in {"Converged at xl", "Converged at xu"}

Formatted == last.op = "format_number"

\* "d.dddde-pp" or "-d.dddde-pp" with a nonzero first digit, read as the
\* digits m and the exponent p; <<0, 0>> for any other text
sci_parts(s) ==
    LET t == IF s # <<>> /\ Head(s) = "-" THEN Tail(s) ELSE s
    IN  IF /\ Len(t) = 10
           /\ t[2] = "." /\ t[7] = "e" /\ t[8] = "-"
           /\ \A i \in {1, 3, 4, 5, 6, 9, 10} : t[i] \in Digits
           /\ t[1] # "0"
        THEN <<DigitVal(t[1]) * 10000 + DigitVal(t[3]) * 1000 + DigitVal(t[4]) * 100
                   + DigitVal(t[5]) * 10 + DigitVal(t[6]),
               DigitVal(t[9]) * 10 + DigitVal(t[10])>>
        ELSE <<0, 0>>

\* s is the scientific notation of v to 4 decimals: m/10^4 is within half a
\* unit of the last digit of |v| * 10^p, and the sign is that of v
is_scientific(s, v) ==
    IF v[1] = 0 THEN s = <<"0", ".", "0", "0", "0", "0", "e", "+", "0", "0">>
    ELSE LET parts == sci_parts(s)
         IN  /\ parts[1] # 0
             /\ (s[1] = "-") <=> (v[1] < 0)
             /\ Le(FAbs(Sub(Rat(shift10(IAbs(v[1]), parts[2]), v[2]),
                            Rat(parts[1], 10000))),
                   Rat(1, 20000))

\* C16: format_number with full precision off renders a numeric value of
\* magnitude below 1e-4 in scientific notation and rounds any other numeric
\* value to 4 decimal places; with full precision on it returns the value
\* unchanged; a non-numeric value is returned unchanged in both modes.
C16_FormatNumber ==
    Formatted =>
        IF ~IsNumeric(last.value) \/ last.use_full_precision
        THEN last.result = last.value
        ELSE IF Lt(FAbs(last.value.v), Rat(1, 10000))
        THEN last.result.k = "str" /\ is_scientific(last.result.v, last.value.v)
        ELSE /\ last.result.k = last.value.k
             /\ Mul(last.result.v, Int2Rat(10000))[2] = 1
             /\ Le(FAbs(Sub(last.result.v, last.value.v)), Rat(1, 20000))

\* a nonzero value below 1e-4 was formatted with full precision off
C16_Witness ==
    /\ Formatted
    /\ ~last.use_full_precision
    /\ last.value = [k |-> "float", v |-> Rat(-1, 30000)]
    /\ last.result.v = <<"-", "3", ".", "3", "3", "3", "3", "e", "-", "0", "5">>

AtomChars == IdentChars \cup {"."}

\* every e^<atom> rewritten to exp(<atom>) and every e^-<atom> to exp(-<atom>),
\* an atom being a name or a number
RECURSIVE rewrite_exp(_)
rewrite_exp(s) ==
    IF s = <<>> THEN <<>>
    ELSE IF startswith(s, <<"e", "^", "-">>) /\ take_while(From(s, 3), AtomChars) # <<>>
    THEN <<"e", "x", "p", "(", "-">> \o take_while(From(s, 3), AtomChars) \o <<")">>
             \o rewrite_exp(From(s, 3 + Len(take_while(From(s, 3), AtomChars))))
    ELSE IF startswith(s, <<"e", "^">>) /\ take_while(From(s, 2), AtomChars) # <<>>
    THEN <<"e", "x", "p", "(">> \o take_while(From(s, 2), AtomChars) \o <<")">>
             \o rewrite_exp(From(s, 2 + Len(take_while(From(s, 2), AtomChars))))
    ELSE <<Head(s)>> \o rewrite_exp(Tail(s))

\* the text after "f(x) =", trimmed
body_of(text) == strip(From(strip(text), Len(Prefix)))

\* C17: normalisation rewrites every occurrence of e^<atom> to exp(<atom>) and
\* of e^-<atom> to exp(-<atom>), each with its closing parenthesis right after
\* its atom, for every function text: one occurrence, several occurrences with
\* different atoms, or both forms together.
C17_ExpRewriting ==
    (Searched /\ has_prefix(strip(last.text))
        /\ contains(body_of(last.text), <<"e", "^">>))
    => function_str = normalise_ops(rewrite_exp(body_of(last.text)))

\* the three real roots of x^3 - 0.165*x^2 + 3.993e-4, to four decimals
KnownRoots == {Rat(-437, 10000), Rat(624, 10000), Rat(1464, 10000)}

\* C18: for the text f(x)=x^3 - 0.165*x^2 + 3.993e-4, parsing succeeds and
\* incremental_method reports the three known real roots of the cubic, each to
\* within the configured tolerance.
C18_ScenarioD ==
    (Searched /\ last.text = ScenarioD) =>
        /\ last.ret
        /\ Incremental =>
               \A known \in KnownRoots :
                   \E i \in 1..Len(roots) :
                       Lt(FAbs(Sub(roots[i], known)), last.entries.tolerance)

\* C19: when f has no value at a point that bisection or regula falsi visits
\* in an interval, that interval is aborted: it reports no root, and the
\* remaining intervals are still searched.
C19_UndefinedValueAborts ==
    Scanned =>
        \A k \in 1..Len(last.runs) :
            (\E n \in 1..Len(last.runs[k].steps) :
                 ~IsNumber(call(function, last.runs[k].steps[n].next)))
            => /\ last.runs[k].root = <<>>
               /\ Len(last.runs) = Len(last.intervals)

HelpNames ==
    {<<"x">>, <<"p", "i">>, <<"e">>, <<"e", "x", "p">>, <<"s", "i", "n">>,
     <<"c", "o", "s">>, <<"t", "a", "n">>, <<"l", "n">>, <<"l", "o", "g">>,
     <<"s", "q", "r", "t">>}

\* C20: a function text that uses only x and the names the Syntax Help lists
\* (pi, e, exp, sin, cos, tan, ln, log, sqrt) compiles: parse_function succeeds.
C20_HelpNamesAccepted ==
    (Searched /\ has_prefix(strip(last.text))
        /\ identifiers(last.text) # {}
        /\ identifiers(last.text) \subseteq HelpNames
        /\ ~contains(body_of(last.text), <<"e", "^">>)
        /\ python_parse(normalise_ops(body_of(last.text))).ok)
    => last.ret

Bisection == Compiles /\ last.entries.method = "Bisection Method"

\* C21: bisection keeps a bracket: for every scanner interval and in every
\* pass of its loop the endpoints a and b of the pass satisfy f(a)*f(b) <= 0,
\* also when the interval was emitted because an endpoint value is exactly zero.
C21_BisectionBracket ==
    Bisection =>
        \A k \in 1..Len(last.runs) :
            \A n \in 1..Len(last.runs[k].data) :
                LET rec == last.runs[k].data[n]
                IN  /\ rec.f_xl = call(function, rec.xl)
                    /\ rec.f_xu = call(function, rec.xu)
                    /\ Le(Mul(rec.f_xl, rec.f_xu), Zero)

\* C22: for max_iterations >= 1 bisection_method reports exactly one root per
\* scanner interval, in the scanner's order; each root is the midpoint of the
\* last pass of its interval, and its trace holds one record per pass (between
\* 1 and max_iterations records), all of passes on that interval: the first
\* on the interval itself, each later one on a half of the one before.
C22_OneRootPerInterval ==
    (Bisection /\ last.entries.max_iter >= 1) =>
        /\ last.raised = ""
        /\ Len(last.runs) = Len(last.intervals)
        /\ Len(roots) = Len(last.intervals)
        /\ Len(iterations_data) = Len(last.intervals)
        /\ \A k \in 1..Len(last.intervals) :
               LET run == last.runs[k]
                   data == iterations_data[k].data
               IN  /\ run.interval = last.intervals[k]
                   /\ data = run.data
                   /\ iterations_data[k].root = roots[k]
                   /\ Len(data) = run.passes
                   /\ Len(data) \in 1..last.entries.max_iter
                   /\ roots[k] = data[Len(data)].xr
                   /\ data[1].xl = last.intervals[k][1]
                   /\ data[1].xu = last.intervals[k][2]
                   /\ \A n \in 1..Len(data) :
                          /\ data[n].Iteration = n - 1
                          /\ data[n].xr = Div(Add(data[n].xl, data[n].xu), Two)
                          /\ n > 1 =>
                                 \/ /\ data[n].xl = data[n - 1].xl
                                    /\ data[n].xu = data[n - 1].xr
                                 \/ /\ data[n].xl = data[n - 1].xr
                                    /\ data[n].xu = data[n - 1].xu

\* two intervals that each used both passes of the budget, the second one
\* starting from a sample where f is zero
C22_Witness ==
    /\ Bisection
    /\ last.entries.max_iter = 2
    /\ Len(roots) = 2
    /\ \A k \in 1..2 : last.runs[k].end = "max" /\ Len(iterations_data[k].data) = 2
    /\ call(function, last.intervals[2][1]) = Zero

\* the runs of an incremental search that refined a sign change
refinements == SelectSeq(last.runs, LAMBDA r : r.end = "refined")

\* C23: each refinement of incremental_method performs at most max_iterations
\* narrowing steps; its trace has one record per narrowing step plus one final
\* record, with Iteration 0, 1, ..., k in order, so it never exceeds
\* max_iterations + 1 records.
C23_RefinementBudget ==
    Incremental =>
        \A k \in 1..Len(refinements) :
            LET run == refinements[k]
            IN  /\ run.passes \in 0..last.entries.max_iter
                /\ Len(run.data) = run.passes + 1
                /\ Len(run.data) <= last.entries.max_iter + 1
                /\ \A n \in 1..Len(run.data) : run.data[n].Iteration = n - 1
                /\ \A n \in 1..(Len(run.data) - 1) :
                       /\ run.data[n].Remarks = ""
                       /\ \/ /\ run.data[n + 1].xl = run.data[n].xl
                             /\ run.data[n + 1].xu =
                                    Div(Add(run.data[n].xl, run.data[n].xu), Two)
                          \/ /\ run.data[n + 1].xu = run.data[n].xu
                             /\ run.data[n + 1].xl =
                                    Div(Add(run.data[n].xl, run.data[n].xu), Two)
                /\ \E j \in 1..Len(iterations_data) :
                       iterations_data[j].data = run.data

\* a refinement that used the whole budget of two narrowing steps
C23_Witness ==
    /\ Incremental
    /\ last.entries.max_iter = 2
    /\ \E k \in 1..Len(refinements) :
           /\ refinements[k].passes = 2
           /\ Len(refinements[k].data) = 3
           /\ refinements[k].data[3].Iteration = 2

\* |c - prev_c| / |c| * 100 when c != 0 and |c - prev_c| * 100 when c = 0
policy_error(c, prev_c) ==
    IF c = Zero THEN Mul(FAbs(Sub(c, prev_c)), Hundred)
    ELSE Mul(Div(FAbs(Sub(c, prev_c)), FAbs(c)), Hundred)

\* the error column of a record
recorded_error(method, rec) == IF method = "Bisection Method" THEN rec.a_pct ELSE rec.a

\* C24: in bisection and regula falsi a pass ends the search of its interval as
\* converged exactly when |f(c)| < tolerance, or it is not the first pass and
\* the relative error is below tolerance, the relative error being
\* |c - prev_c| / |c| * 100 when c != 0 and |c - prev_c| * 100 when c = 0 (a
\* number, no division by zero); on the first pass only the function-value
\* test can end the search.
C24_ConvergenceTest ==
    Scanned =>
        \A k \in 1..Len(last.runs) :
            LET run == last.runs[k]
                tol == last.entries.tolerance
            IN  /\ Len(run.data) = Len(run.steps)
                /\ run.end = "converged" <=>
                       (run.steps # <<>> /\ run.steps[Len(run.steps)].stop)
                /\ \A n \in 1..Len(run.steps) :
                       LET c == run.steps[n].next
                           prev_c == run.steps[n].x
                           error == recorded_error(last.entries.method, run.data[n])
                       IN  /\ (prev_c = <<>>) <=> (n = 1)
                           /\ n > 1 => prev_c = <<run.steps[n - 1].next>>
                           /\ error = IF n = 1 THEN <<"N/A">>
                                      ELSE <<policy_error(c, prev_c[1])>>
                           /\ (n > 1 /\ c = Zero /\ IsNumber(prev_c[1])) =>
                                  IsNumber(error[1])
                           /\ run.steps[n].stop <=>
                                  \/ Lt(FAbs(call(function, c)), tol)
                                  \/ n > 1 /\ Lt(policy_error(c, prev_c[1]), tol)
                           /\ run.steps[n].stop =>
                                  n = Len(run.steps) /\ run.root = <<c>>

\* a second pass of bisection with c = 0 that went on with an error of 100
\* percent, and a second pass that converged by the error alone
C24_Witness ==
    /\ Scanned
    /\ \E k \in 1..Len(last.runs) :
           \/ /\ last.text = SmallRoot
              /\ Len(last.runs[k].steps) = 2
              /\ last.runs[k].steps[2].next = Zero
              /\ last.runs[k].data[2].a_pct = <<Hundred>>
              /\ ~last.runs[k].steps[2].stop
           \/ /\ last.text = FarRoot
              /\ last.runs[k].end = "converged"
              /\ Len(last.runs[k].steps) = 2
              /\ ~Lt(FAbs(call(function, last.runs[k].root[1])), last.entries.tolerance)

\* C25: incremental_method terminates for every x_min, x_max, step size,
\* tolerance and max_iterations that find_roots accepts: the walk from x_min to
\* x_max, once entered, reaches its end.
C25_WalkTerminates ==
    (last.op = "incremental_method" /\ last.at # "returned")
        ~> (last.op = "incremental_method" /\ last.at = "returned")

\* C26: within one run of incremental_method no x value is reported as a root
\* more than once; a grid point reported by a refinement that converged at its
\* upper endpoint is not reported again as a direct root when the walk reaches
\* that grid point.
C26_NoDuplicateRoots ==
    Incremental =>
        /\ \A i \in 1..Len(roots) : \A j \in 1..Len(roots) :
               i # j => roots[i] # roots[j]
        /\ \A i \in 1..Len(last.runs) : \A j \in 1..Len(last.runs) :
               (last.runs[i].end = "refined" /\ last.runs[j].end = "direct")
               => last.runs[i].root # last.runs[j].root

\* C27: after any sequence of find_roots calls (any method, successful or
\* failing) and clear_results calls, roots and iterations_data have the same
\* length and roots[i] is the root stored in iterations_data[i] for every i;
\* the lists hold only the results of the most recent find_roots call, and
\* nothing after a clear_results or a find_roots that failed.
C27_ResultsPaired ==
    /\ Len(roots) = Len(iterations_data)
    /\ \A i \in 1..Len(roots) : iterations_data[i].root = roots[i]
    /\ IF Compiles
       THEN /\ Len(roots) = Len(with_root(last.runs))
            /\ \A i \in 1..Len(roots) :
                   /\ roots[i] = with_root(last.runs)[i].root[1]
                   /\ iterations_data[i].data = with_root(last.runs)[i].data
       ELSE roots = <<>>

\* a search that reported several roots, some with a trace and some without
C27_Witness ==
    /\ Compiles
    /\ Len(roots) >= 2
    /\ \E i \in 1..Len(roots) : iterations_data[i].data # <<>>
    /\ \E i \in 1..Len(roots) : iterations_data[i].data = <<>>

\* C28: when Newton-Raphson or secant stops on a near-zero denominator nothing
\* is published: roots and iterations_data are as they were before the run
\* (as clear_results left them), and the iteration records gathered in the
\* earlier passes of the run are discarded.
C28_DegenerateStopPublishesNothing ==
    ((Newton \/ Secant) /\ last.runs[1].end = "degenerate") =>
        /\ last.raised = ""
        /\ roots = clear_results(roots, iterations_data).roots
        /\ iterations_data = clear_results(roots, iterations_data).iterations_data
        /\ \A j \in 1..Len(iterations_data) :
               iterations_data[j].data # last.runs[1].data

\* a run that stopped on a near-zero denominator in its second pass, after
\* the first pass had stored a record
C28_Witness ==
    /\ Newton \/ Secant
    /\ last.runs[1].end = "degenerate"
    /\ last.runs[1].passes = 2
    /\ Len(last.runs[1].data) = 1

\* C29: after any sequence of parse_function calls, successful or failing,
\* function_str is the normalised text from which the current function and
\* derivative were compiled: a failed parse does not leave function_str
\* describing another text than the one the stored function came from
\* (stated for a stored function and derivative that come from one text).
C29_FunctionStrConsistent ==
    <<function, derivative>> \in Compiled =>
        LET p == compile(function_str, None, Unset)
        IN  /\ p.ret
            /\ p.function = function
            /\ p.derivative = derivative

\* the literal in scientific notation at the head of s (digits, optionally a
\* point and digits, then e, optionally a sign, and digits), or <<>>
sci_lexeme(s) ==
    LET m == number_lexeme(s)
        r == From(s, Len(m))
        sgn == IF Len(r) >= 2 /\ r[2] \in {"+", "-"} THEN <<r[2]>> ELSE <<>>
        ex == take_while(From(r, 1 + Len(sgn)), Digits)
    IN  IF m # <<>> /\ r # <<>> /\ Head(r) = "e" /\ ex # <<>>
        THEN m \o <<"e">> \o sgn \o ex
        ELSE <<>>

\* the literals in scientific notation of s; inside is whether the character
\* before s belongs to a name or a number
RECURSIVE sci_literals(_, _)
sci_literals(s, inside) ==
    IF s = <<>> THEN {}
    ELSE IF ~inside /\ sci_lexeme(s) # <<>>
    THEN {sci_lexeme(s)} \cup sci_literals(From(s, Len(sci_lexeme(s))), TRUE)
    ELSE sci_literals(Tail(s), Head(s) \in AtomChars)

\* C30: implicit-multiplication insertion leaves the characters of every
\* numeric literal intact: a literal written in scientific notation (such as
\* 3.993e-4 or 1e-3) is still there, with its value, in the normalised text.
C30_LiteralsIntact ==
    (Searched /\ has_prefix(strip(last.text))) =>
        \A lit \in sci_literals(body_of(last.text), FALSE) :
            contains(function_str, lit)

====
